---- MODULE Spec2Model ----
(***************************************************************************)
(* State-machine model of contracts/UrbanFarmTwinFHE.sol and of the data   *)
(* loading of frontend/web/src/App.tsx.                                    *)
(*                                                                         *)
(* Every public function of the contract is one action.  A transaction     *)
(* that reverts leaves the storage untouched (EVM semantics) and is        *)
(* recorded, like every other transaction, in the observation variable     *)
(* `last`: the call, its arguments, whether it reverted, what it handed    *)
(* to the FHE library and which events it emitted.                         *)
(*                                                                         *)
(* The FHE library (@fhevm/solidity) is outside the repository.  Its       *)
(* handles are modelled by the plaintext they encrypt, requestDecryption   *)
(* by a counter of request IDs, and checkSignatures by a verdict that the  *)
(* environment chooses.  keccak256 is modelled as an injective map whose   *)
(* values are non-zero and differ from every small identifier.             *)
(***************************************************************************)
EXTENDS Integers, Sequences, FiniteSets, Bags, TLC

\* ------------------------------------------------------------------ bounds
MaxWork == 2          \* state-growing transactions (of all kinds) in a run

\* ---------------------------------------------------------- program values
\* uint32 values.  TLC's integers are 32-bit signed, so a uint32 is kept as
\* two 16-bit limbs, value = hi * 2^16 + lo, and the arithmetic of the
\* contract is done on the limbs with its exact width.
Limb == 2 ^ 16
U32(n) == [hi |-> n \div Limb, lo |-> n % Limb]        \* for 0 <= n < 2^31
MaxUint32 == [hi |-> Limb - 1, lo |-> Limb - 1]

\* a + b modulo 2^32 (the homomorphic add of two euint32 wraps)
U32AddWrap(a, b) ==
  LET lo == a.lo + b.lo
      hi == a.hi + b.hi + (lo \div Limb)
  IN  [hi |-> hi % Limb, lo |-> lo % Limb]

\* a * 10 + d in checked uint32 arithmetic: ok = FALSE is the overflow panic
U32MulAdd10(a, d) ==
  LET lo == a.lo * 10 + d
      hi == a.hi * 10 + (lo \div Limb)
  IN  [ok |-> hi < Limb, value |-> [hi |-> hi % Limb, lo |-> lo % Limb]]

\* strings are sequences of bytes
StrEmpty == << >>
StrHealthy ==
  <<72, 101, 97, 108, 116, 104, 121, 44, 56, 53, 37, 32,
    109, 111, 105, 115, 116, 117, 114, 101>>        \* "Healthy,85% moisture"
Str85 == <<56, 53>>                                 \* "85"
Str8a == <<56, 97>>                                 \* "8a"
StrA8 == <<97, 56>>                                 \* "a8"
StrOverflow == <<52, 50, 57, 52, 57, 54, 55, 50, 57, 54>>  \* "4294967296"
StrMaxU32 == <<52, 50, 57, 52, 57, 54, 55, 50, 57, 53>>    \* "4294967295"
StrW == <<119>>                                     \* "w"
StrN == <<110>>                                     \* "n"
StrL == <<108>>                                     \* "l"

\* ------------------------------------------------- the FHE library (stubs)
\* euint32: the zero handle is "not initialized"; any other handle is
\* modelled by the plaintext it encrypts.
Uninit == [init |-> FALSE, val |-> U32(0)]
Enc(v) == [init |-> TRUE, val |-> v]

isInitialized(h) == h.init
asEuint32(v) == Enc(v)
PlainOf(h) == IF h.init THEN h.val ELSE U32(0)
FHEadd(a, b) == Enc(U32AddWrap(PlainOf(a), PlainOf(b)))
toBytes32(h) == h

\* keccak256(abi.encodePacked(s)) on the strings the contract hashes
KeccakPreimages == <<"twin_update", "recommendation", "aggregate",
                     "total_water", "avg_light">>
HashBase == 2 ^ 30
Keccak(s) ==
  HashBase + (CHOOSE i \in 1..Len(KeccakPreimages) : KeccakPreimages[i] = s)

MetricKeyNames == {"total_water", "avg_light"}
ZeroTag == 0

\* ------------------------------------------------------------ identifiers
ReadingIds == 0..(MaxWork + 1)
EntityIds == (0..(MaxWork + 1)) \cup {Keccak(k) : k \in MetricKeyNames}
RequestIds == 0..MaxWork
NoRequest == 0 - 1     \* "no request ID": not a value the oracle returns

\* ------------------------------------------------- callback byte payloads
\* `cleartexts` is ABI-encoded bytes.  Three shapes are told apart: the
\* encoding of a string[], the encoding of one uint32 word, and bytes that
\* are no ABI encoding at all (for instance the empty byte string).
StringsPayload(parts) == [kind |-> "strings", parts |-> parts, value |-> U32(0)]
Uint32Payload(v) == [kind |-> "uint32", parts |-> << >>, value |-> v]
MalformedPayload == [kind |-> "malformed", parts |-> << >>, value |-> U32(0)]

\* the callbacks that write storage, and "no payload delivered yet"
WritingCallbacks == {"decryptTwinUpdate", "decryptRecommendation"}
NotDelivered == [kind |-> "none", parts |-> << >>, value |-> U32(0)]

\* abi.decode(cleartexts, (string[])).  A single word is read as the offset
\* of the array: offset 0 points at the word itself, which is then the
\* length 0; every other word points outside the 32 bytes and reverts.
decodeStringArray(c) ==
  CASE c.kind = "strings" -> [ok |-> TRUE, parts |-> c.parts]
    [] c.kind = "uint32" /\ c.value = U32(0) -> [ok |-> TRUE, parts |-> << >>]
    [] OTHER -> [ok |-> FALSE, parts |-> << >>]

\* abi.decode(cleartexts, (uint32)).  The first word of an encoded string[]
\* is the offset 0x20, which is a valid uint32.
HeadOffset == U32(32)
decodeUint32(c) ==
  CASE c.kind = "uint32" -> [ok |-> TRUE, value |-> c.value]
    [] c.kind = "strings" -> [ok |-> TRUE, value |-> HeadOffset]
    [] OTHER -> [ok |-> FALSE, value |-> U32(0)]

\* parseUint32: the loop of lines 302-309 from index i with accumulator
\* `result`.  The arithmetic is checked uint32 arithmetic (Solidity 0.8,
\* no unchecked block): result * 10 + digit above 2^32 - 1 panics.
RECURSIVE parseUint32From(_, _, _)
parseUint32From(b, i, result) ==
  IF i > Len(b) THEN [ok |-> TRUE, value |-> result]
  ELSE IF b[i] >= 48 /\ b[i] <= 57
       THEN LET next == U32MulAdd10(result, b[i] - 48)
            IN  IF ~next.ok
                THEN [ok |-> FALSE, value |-> U32(0)]
                ELSE parseUint32From(b, i + 1, next.value)
       ELSE [ok |-> TRUE, value |-> result]

\* variant of parseUint32: a non-digit is skipped instead of ending the scan
RECURSIVE parseUint32Skipping(_, _, _)
parseUint32Skipping(b, i, result) ==
  IF i > Len(b) THEN [ok |-> TRUE, value |-> result]
  ELSE IF b[i] >= 48 /\ b[i] <= 57
       THEN LET next == U32MulAdd10(result, b[i] - 48)
            IN  IF ~next.ok
                THEN [ok |-> FALSE, value |-> U32(0)]
                ELSE parseUint32Skipping(b, i + 1, next.value)
       ELSE parseUint32Skipping(b, i + 1, result)
parseUint32_skipping(s) == parseUint32Skipping(s, 1, U32(0))

parseUint32(s) == parseUint32From(s, 1, U32(0))

\* ------------------------------------------------- front-end store values
\* The front-end (App.tsx) talks to a key/value contract through
\* getData(key) and setData(key, value).  A stored value is a byte string;
\* what matters of it is its length and what JSON.parse(toUtf8String(.))
\* makes of it: an exception, null, an array of key strings or a record.
BytesEmpty == [kind |-> "empty", keys |-> << >>, timestamp |-> 0]
BytesGarbage == [kind |-> "garbage", keys |-> << >>, timestamp |-> 0]
JsonNull == [kind |-> "null", keys |-> << >>, timestamp |-> 0]
JsonKeys(ks) == [kind |-> "keys", keys |-> ks, timestamp |-> 0]
JsonRecord(ts) == [kind |-> "record", keys |-> << >>, timestamp |-> ts]

RecordKeys == {"a", "b", "c"}
SensorKey(k) == "sensor_" \o k
AdviceKey(k) == "advice_" \o k
StoreKeys ==
  {"sensor_keys", "advice_keys"} \cup
  {SensorKey(k) : k \in RecordKeys} \cup {AdviceKey(k) : k \in RecordKeys}
EmptyStore == [k \in StoreKeys |-> BytesEmpty]

\* the browsers that run App: the one whose React state the model holds,
\* and a second one, of which the model holds the submit run only
Clients == {"app", "peer"}

\* the IDs that Date.now() and Math.random() give the submits of a
\* behaviour (lines 230 and 326), in the order they are drawn, and the
\* index and record keys of the two kinds of submit
NewIds == <<"b", "c">>
IndexKey(kind) == kind \o "_keys"
RecordKey(kind, id) == kind \o "_" \o id

\* one browser's submit handler: where the run is, what it holds (the ID,
\* keysBytes, keys), and the React state it sets (transactionStatus with
\* the error it reports, its pending hide timer, creating); `alert` is the
\* text of the alert a refused submit showed
NoRun ==
  [pc |-> "idle", kind |-> "sensor", id |-> "", keysBytes |-> BytesEmpty,
   keys |-> << >>, status |-> "none", message |-> "", timer |-> FALSE,
   creating |-> FALSE, alert |-> ""]

\* e.message of the exceptions a submit meets: no contract with a signer
\* (lines 226-228), a rejected promise, and keys.push on a value that has
\* no push method
NoSigner == "Failed to get contract with signer"
Rejected == "rejected"
PushTypeError == "keys.push is not a function"

\* ------------------------------------------------------------------- state
VARIABLES
  readingCount, twinCount, recommendationCount,
  readings, encryptedTwins, decryptedTwins,
  encryptedRecommendations, decryptedRecommendations,
  encryptedMetricAggregates, metricKeys,
  requestToEntityId, requestToTag,
  counterRequest,      \* the FHE library's request counter
  blockTimestamp,      \* block.timestamp of the block being executed
  last,                \* the last transaction, as seen from outside
  issuedFor,           \* history: the call that obtained each request ID
  firstAddOrder,       \* history: keys in the order of their first add
  addedDeltas,         \* history: the bag of deltas added to each key
  succeeded,           \* history: the writing callbacks that succeeded,
                       \* each with the block it ran in
  delivered,           \* history: the payload each request ID's last
                       \* successful callback carried, per callback
  replaced,            \* history: the registrations that a later
                       \* registration of the same request ID overwrote
  store,               \* the key/value contract behind getData / setData
  sensorData, farmingAdvice,   \* React state of App: the two lists
  isRefreshing, loading,       \* React state of App: the busy flags
  loadPc,              \* "idle", or "running" while a loadData run is awaiting
  lastLoad,            \* the last finished loadData run, as seen from outside
  submits,             \* the submit run of each browser
  progress,            \* history: how far the submit of each new ID got
  provider             \* React state of App: a wallet provider is set

storage ==
  <<readingCount, twinCount, recommendationCount,
    readings, encryptedTwins, decryptedTwins,
    encryptedRecommendations, decryptedRecommendations,
    encryptedMetricAggregates, metricKeys,
    requestToEntityId, requestToTag>>

history == <<issuedFor, firstAddOrder, addedDeltas, succeeded, delivered, replaced>>

contractVars == <<storage, counterRequest, blockTimestamp, last, history>>

\* the React state of App that loadData sets
lists == <<sensorData, farmingAdvice, isRefreshing, loading, lastLoad>>

frontend == <<store, lists, loadPc, submits, progress, provider>>

vars == <<contractVars, frontend>>

\* the zero value of each struct (what an unwritten mapping slot reads as)
ZeroReading ==
  [id |-> 0, encryptedTimestamp |-> Uninit, encryptedTemperature |-> Uninit,
   encryptedHumidity |-> Uninit, encryptedCO2 |-> Uninit,
   encryptedLight |-> Uninit, encryptedSoilMoisture |-> Uninit]
ZeroEncryptedTwin ==
  [id |-> 0, encryptedStateHash |-> Uninit, encryptedHealthScore |-> Uninit,
   lastUpdated |-> 0]
ZeroDecryptedTwin ==
  [stateSummary |-> StrEmpty, healthScore |-> U32(0), revealed |-> FALSE]
ZeroEncryptedRecommendation ==
  [id |-> 0, encryptedWateringSchedule |-> Uninit, encryptedNutrientPlan |-> Uninit,
   encryptedLightAdjust |-> Uninit, generatedAt |-> 0]
ZeroDecryptedRecommendation ==
  [watering |-> StrEmpty, nutrients |-> StrEmpty, lightAdjust |-> StrEmpty,
   revealed |-> FALSE]

\* events, all of one record shape: a name, up to two numbers and a string
Event(name, a, b, key) == [name |-> name, a |-> a, b |-> b, key |-> key]

\* the observation of one transaction; every action fills in what applies
NoIssue == [kind |-> "none", entity |-> 0]
Call(op) ==
  [op |-> op, reverted |-> FALSE, reason |-> "",
   sender |-> "",           \* msg.sender, where a modifier is handed the call
   twinId |-> 0, readingIds |-> << >>, key |-> "", delta |-> Uninit,
   requestId |-> NoRequest, cleartexts |-> MalformedPayload, proofOk |-> FALSE,
   entity |-> 0,            \* what the correlator lookup returned
   value |-> U32(0),        \* the uint32 carried by PlainAggregateResult
   verifierCalled |-> FALSE, \* FHE.checkSignatures was invoked
   issued |-> NoRequest,    \* the request ID FHE.requestDecryption returned
   ciphertexts |-> << >>,   \* the handles handed to FHE.requestDecryption
   events |-> << >>]

Reverted(call, reason) == [call EXCEPT !.reverted = TRUE, !.reason = reason]

\* the environment of one loadData run: what checkContractAvailability
\* meets, what the second getContractReadOnly returns, and the keys whose
\* getData call rejects
Env(available, contract, failing) ==
  [available |-> available, contract |-> contract, failing |-> failing]
NoLoad ==
  [ran |-> FALSE, env |-> Env("ok", "ok", {}), threw |-> FALSE,
   sensorSet |-> FALSE, adviceSet |-> FALSE]

\* the contract after construction
InitContract ==
  /\ readingCount = 0
  /\ twinCount = 0
  /\ recommendationCount = 0
  /\ readings = [i \in ReadingIds |-> ZeroReading]
  /\ encryptedTwins = [i \in EntityIds |-> ZeroEncryptedTwin]
  /\ decryptedTwins = [i \in EntityIds |-> ZeroDecryptedTwin]
  /\ encryptedRecommendations = [i \in EntityIds |-> ZeroEncryptedRecommendation]
  /\ decryptedRecommendations = [i \in EntityIds |-> ZeroDecryptedRecommendation]
  /\ encryptedMetricAggregates = [k \in MetricKeyNames |-> Uninit]
  /\ metricKeys = << >>
  /\ requestToEntityId = [r \in RequestIds |-> 0]
  /\ requestToTag = [r \in RequestIds |-> ZeroTag]
  /\ counterRequest = 0
  /\ blockTimestamp = 1
  /\ last = Call("constructor")
  /\ issuedFor = [r \in RequestIds |-> NoIssue]
  /\ firstAddOrder = << >>
  /\ addedDeltas = [k \in MetricKeyNames |-> EmptyBag]
  /\ succeeded = {}
  /\ delivered = [op \in WritingCallbacks |-> [r \in RequestIds |-> NotDelivered]]
  /\ replaced = {}

\* useState<ethers.BrowserProvider | null>(null), line 33, and a page whose
\* wallet is connected
NoProvider == [c \in Clients |-> FALSE]
Connected == [c \in Clients |-> TRUE]

\* App after its first render: the useState initial values, lines 29-56
InitApp ==
  /\ sensorData = << >>
  /\ farmingAdvice = << >>
  /\ isRefreshing = FALSE
  /\ loading = TRUE
  /\ loadPc = "idle"
  /\ lastLoad = NoLoad
  /\ submits = [c \in Clients |-> NoRun]
  /\ progress = [i \in 1..Len(NewIds) |-> [kind |-> "sensor", stage |-> "unused"]]

Init == InitContract /\ InitApp /\ store = EmptyStore /\ provider = NoProvider

\* ------------------------------------------------------------ run budget
\* the number of addEncryptedAggregate calls so far
RECURSIVE AddsOver(_)
AddsOver(keys) ==
  IF keys = {} THEN 0
  ELSE LET k == CHOOSE x \in keys : TRUE
       IN  BagCardinality(addedDeltas[k]) + AddsOver(keys \ {k})
TotalAdds == AddsOver(MetricKeyNames)

\* the state-growing transactions so far: submissions, decryption requests,
\* aggregate adds and mined blocks (callbacks grow nothing and are free)
Work == readingCount + counterRequest + TotalAdds + (blockTimestamp - 1)
HasBudget == Work < MaxWork

\* ------------------------------------------------------------ transactions
\* A transaction that reverts: the EVM rolls every write back; only the
\* observation records that it was attempted.
Revert(call, reason) ==
  /\ last' = Reverted(call, reason)
  /\ UNCHANGED <<storage, counterRequest, blockTimestamp, history, frontend>>

\* A later block: block.timestamp grows.
mineBlock ==
  /\ HasBudget
  /\ blockTimestamp' = blockTimestamp + 1
  /\ UNCHANGED <<storage, counterRequest, last, history, frontend>>

\* variant of nextReadingId: the counter is not advanced
nextReadingId_reused == readingCount

\* readingCount += 1; uint256 rid = readingCount (lines 98-99)
nextReadingId == readingCount + 1

\* submitEncryptedReading, lines 90-112; h holds the six handles passed
submitEncryptedReading(h) ==
  /\ HasBudget
  /\ LET rid == nextReadingId
     IN  /\ readingCount' = rid
         /\ readings' = [readings EXCEPT ![rid] =
              [id |-> rid,
               encryptedTimestamp |-> h.encryptedTimestamp,
               encryptedTemperature |-> h.encryptedTemperature,
               encryptedHumidity |-> h.encryptedHumidity,
               encryptedCO2 |-> h.encryptedCO2,
               encryptedLight |-> h.encryptedLight,
               encryptedSoilMoisture |-> h.encryptedSoilMoisture]]
         /\ last' = [Call("submitEncryptedReading") EXCEPT
              !.events = <<Event("ReadingSubmitted", rid, blockTimestamp, "")>>]
  /\ UNCHANGED <<twinCount, recommendationCount, encryptedTwins, decryptedTwins,
                 encryptedRecommendations, decryptedRecommendations,
                 encryptedMetricAggregates, metricKeys,
                 requestToEntityId, requestToTag,
                 counterRequest, blockTimestamp, history, frontend>>

\* the six handles of one reading, in the order of lines 124-129
readingCiphertexts(r) ==
  <<toBytes32(r.encryptedTimestamp), toBytes32(r.encryptedTemperature),
    toBytes32(r.encryptedHumidity), toBytes32(r.encryptedCO2),
    toBytes32(r.encryptedLight), toBytes32(r.encryptedSoilMoisture)>>

\* variant of collectCiphertexts: only the IDs of stored readings are
\* collected
collectCiphertexts_known(readingIds) ==
  LET known(id) == 1 <= id /\ id <= readingCount
      ids == SelectSeq(readingIds, known)
  IN  [j \in 1..(Len(ids) * 6) |->
         readingCiphertexts(readings[ids[((j - 1) \div 6) + 1]])[((j - 1) % 6) + 1]]

\* the ciphertexts array built by the loop of lines 120-130
collectCiphertexts(readingIds) ==
  [j \in 1..(Len(readingIds) * 6) |->
     readingCiphertexts(readings[readingIds[((j - 1) \div 6) + 1]])[((j - 1) % 6) + 1]]

\* variant of registerRequest: the entry of the previous request is cleared
registerRequest_evicting(reqId, entityId, tag) ==
  /\ requestToEntityId' =
       [r \in RequestIds |-> IF r = reqId THEN entityId
                             ELSE IF r = reqId - 1 THEN 0 ELSE requestToEntityId[r]]
  /\ requestToTag' =
       [r \in RequestIds |-> IF r = reqId THEN Keccak(tag)
                             ELSE IF r = reqId - 1 THEN ZeroTag ELSE requestToTag[r]]

\* variant of registerRequest: the tag is not stored
registerRequest_entityOnly(reqId, entityId, tag) ==
  /\ requestToEntityId' = [requestToEntityId EXCEPT ![reqId] = entityId]
  /\ requestToTag' = requestToTag

\* variant of registerRequest: the entry is stored under the next request ID
registerRequest_nextSlot(reqId, entityId, tag) ==
  /\ requestToEntityId' = [requestToEntityId EXCEPT ![reqId + 1] = entityId]
  /\ requestToTag' = [requestToTag EXCEPT ![reqId + 1] = Keccak(tag)]

\* variant of registerRequest: an ID that is already registered keeps its
\* entry
registerRequest_keepFirst(reqId, entityId, tag) ==
  IF requestToEntityId[reqId] # 0
  THEN /\ requestToEntityId' = requestToEntityId
       /\ requestToTag' = requestToTag
  ELSE /\ requestToEntityId' = [requestToEntityId EXCEPT ![reqId] = entityId]
       /\ requestToTag' = [requestToTag EXCEPT ![reqId] = Keccak(tag)]

\* the two correlator writes that follow every FHE.requestDecryption
\* (lines 134-135, 202-203, 251-252)
registerRequest(reqId, entityId, tag) ==
  /\ requestToEntityId' = [requestToEntityId EXCEPT ![reqId] = entityId]
  /\ requestToTag' = [requestToTag EXCEPT ![reqId] = Keccak(tag)]

\* variant of resolveRequest: only an ID registered with the twin-update
\* tag resolves
resolveRequest_twinOnly(requestId) ==
  IF requestToTag[requestId] = Keccak("twin_update")
  THEN requestToEntityId[requestId] ELSE 0

\* variant of resolveRequest: a request that a later request for the same
\* entity has superseded no longer resolves
resolveRequest_latestOnly(requestId) ==
  IF \E r \in RequestIds :
       /\ r > requestId
       /\ requestToEntityId[r] = requestToEntityId[requestId]
  THEN 0 ELSE requestToEntityId[requestId]

\* variant of resolveRequest: a request whose callback succeeded is consumed
resolveRequest_once(requestId) ==
  IF \E x \in succeeded : x.requestId = requestId
  THEN 0 ELSE requestToEntityId[requestId]

\* the correlator read that opens every callback (lines 146, 214, 264)
resolveRequest(requestId) == requestToEntityId[requestId]

\* history of the correlator writes: the call that obtained reqId last, and
\* the registration it overwrote, if any
recordIssue(reqId, kind, entityId) ==
  /\ issuedFor' = [issuedFor EXCEPT ![reqId] = [kind |-> kind, entity |-> entityId]]
  /\ replaced' =
       IF issuedFor[reqId].kind = "none" THEN replaced
       ELSE replaced \cup {[requestId |-> reqId, kind |-> issuedFor[reqId].kind,
                             entity |-> issuedFor[reqId].entity]}

\* FHE.requestDecryption(ciphertexts, selector), lines 133, 201 and 250: the
\* request ID it returns.  The library numbers its requests with a counter;
\* an oracle that hands an ID out again returns any ID up to that counter.
requestDecryptionIds(reusing) ==
  IF reusing THEN 0..counterRequest ELSE {counterRequest}

\* variant of onlyOwnerOfTwin: only one account passes
onlyOwnerOfTwin_enforced(sender, twinId) == sender = "alice"

\* modifier onlyOwnerOfTwin(twinId), lines 84-87: the body is `_;` alone,
\* every msg.sender passes
onlyOwnerOfTwin(sender, twinId) == TRUE

\* variant of hasReadings: the comparison admits the empty array
hasReadings_orEmpty(n) == n >= 0

\* require(n > 0, "No readings provided"), line 118
hasReadings(n) == n > 0

\* requestTwinUpdate, lines 115-138, called by `sender`; reqId is the
\* request ID that FHE.requestDecryption returns.  The modifier runs first.
requestTwinUpdate(sender, twinId, readingIds, reqId) ==
  LET n == Len(readingIds)
      call == [Call("requestTwinUpdate") EXCEPT
                 !.sender = sender, !.twinId = twinId, !.readingIds = readingIds]
  IN  IF ~onlyOwnerOfTwin(sender, twinId)
      THEN Revert(call, "onlyOwnerOfTwin")
      ELSE IF ~hasReadings(n)
      THEN Revert(call, "No readings provided")
      ELSE /\ HasBudget
           /\ LET ciphertexts == collectCiphertexts(readingIds)
              IN  /\ counterRequest' = counterRequest + 1
                  /\ registerRequest(reqId, twinId, "twin_update")
                  /\ recordIssue(reqId, "twin_update", twinId)
                  /\ last' = [call EXCEPT
                       !.issued = reqId, !.ciphertexts = ciphertexts,
                       !.events = <<Event("TwinUpdateRequested", twinId, reqId, "")>>]
           /\ UNCHANGED <<readingCount, twinCount, recommendationCount,
                          readings, encryptedTwins, decryptedTwins,
                          encryptedRecommendations, decryptedRecommendations,
                          encryptedMetricAggregates, metricKeys,
                          blockTimestamp, firstAddOrder, addedDeltas, succeeded,
                          delivered, frontend>>

\* variant of isRegistered: the require is missing
isRegistered_unchecked(entityId) == TRUE

\* require(twinId != 0, ...) / require(recId != 0, ...), lines 147 and 215
isRegistered(entityId) == entityId # 0

\* variant of checkSignatures: the verdict of the verifier is ignored
checkSignatures_ignored(proofOk) == TRUE

\* FHE.checkSignatures(requestId, cleartexts, proof), lines 150, 218, 262:
\* the library reverts unless the proof verifies; proofOk is its verdict.
checkSignatures(proofOk) == proofOk

\* variant of makeDecryptedTwin: the revealed flag is left unset
makeDecryptedTwin_unrevealed(parts, score) ==
  [stateSummary |-> IF Len(parts) > 0 THEN parts[1] ELSE StrEmpty,
   healthScore |-> IF Len(parts) > 1 THEN score ELSE U32(0),
   revealed |-> FALSE]

\* the DecryptedTwin of lines 156-160, given the decoded parts and the
\* parsed health score
makeDecryptedTwin(parts, score) ==
  [stateSummary |-> IF Len(parts) > 0 THEN parts[1] ELSE StrEmpty,
   healthScore |-> IF Len(parts) > 1 THEN score ELSE U32(0),
   revealed |-> TRUE]

\* variant of touchEncryptedTwin: the record is created on every callback
touchEncryptedTwin_always(twinId) ==
  /\ twinCount' = twinCount + 1
  /\ encryptedTwins' = [encryptedTwins EXCEPT ![twinId] =
       [id |-> twinId, encryptedStateHash |-> asEuint32(U32(0)),
        encryptedHealthScore |-> asEuint32(U32(0)), lastUpdated |-> blockTimestamp]]

\* variant of touchEncryptedTwin: a new record takes the next twin number
\* as its id
touchEncryptedTwin_counted(twinId) ==
  IF encryptedTwins[twinId].id = 0
  THEN /\ twinCount' = twinCount + 1
       /\ encryptedTwins' = [encryptedTwins EXCEPT ![twinId] =
            [id |-> twinCount + 1, encryptedStateHash |-> asEuint32(U32(0)),
             encryptedHealthScore |-> asEuint32(U32(0)), lastUpdated |-> blockTimestamp]]
  ELSE /\ twinCount' = twinCount
       /\ encryptedTwins' = [encryptedTwins EXCEPT ![twinId].lastUpdated = blockTimestamp]

\* lines 163-173: create the encrypted twin record, or touch lastUpdated
touchEncryptedTwin(twinId) ==
  IF encryptedTwins[twinId].id = 0
  THEN /\ twinCount' = twinCount + 1
       /\ encryptedTwins' = [encryptedTwins EXCEPT ![twinId] =
            [id |-> twinId, encryptedStateHash |-> asEuint32(U32(0)),
             encryptedHealthScore |-> asEuint32(U32(0)), lastUpdated |-> blockTimestamp]]
  ELSE /\ twinCount' = twinCount
       /\ encryptedTwins' = [encryptedTwins EXCEPT ![twinId].lastUpdated = blockTimestamp]

\* decryptTwinUpdate, lines 141-176
decryptTwinUpdate(requestId, cleartexts, proofOk) ==
  LET twinId == resolveRequest(requestId)
      call == [Call("decryptTwinUpdate") EXCEPT
                 !.requestId = requestId, !.cleartexts = cleartexts,
                 !.proofOk = proofOk, !.entity = twinId]
      checked == [call EXCEPT !.verifierCalled = TRUE]
      decoded == decodeStringArray(cleartexts)
      parts == decoded.parts
      score == IF Len(parts) > 1 THEN parseUint32(parts[2])
               ELSE [ok |-> TRUE, value |-> U32(0)]
  IN  IF ~isRegistered(twinId) THEN Revert(call, "Invalid request id")
      ELSE IF ~checkSignatures(proofOk) THEN Revert(checked, "checkSignatures")
      ELSE IF ~decoded.ok THEN Revert(checked, "abi.decode")
      ELSE IF ~score.ok THEN Revert(checked, "Panic(0x11)")
      ELSE /\ decryptedTwins' = [decryptedTwins EXCEPT ![twinId] =
                makeDecryptedTwin(parts, score.value)]
           /\ touchEncryptedTwin(twinId)
           /\ last' = [checked EXCEPT !.events = <<Event("TwinDecrypted", twinId, 0, "")>>]
           /\ succeeded' = succeeded \cup
                {[op |-> "decryptTwinUpdate", requestId |-> requestId, entity |-> twinId,
                  at |-> blockTimestamp]}
           /\ delivered' = [delivered EXCEPT !["decryptTwinUpdate"][requestId] = cleartexts]
           /\ UNCHANGED <<readingCount, recommendationCount, readings,
                          encryptedRecommendations, decryptedRecommendations,
                          encryptedMetricAggregates, metricKeys,
                          requestToEntityId, requestToTag,
                          counterRequest, blockTimestamp,
                          issuedFor, firstAddOrder, addedDeltas, replaced, frontend>>

\* variant of nextRecommendationId: the counter is not advanced
nextRecommendationId_reused == recommendationCount

\* recommendationCount += 1; uint256 rid = recommendationCount (lines 184-185)
nextRecommendationId == recommendationCount + 1

\* submitEncryptedRecommendationRequest, lines 179-206; h holds the three
\* handles passed, reqId is the request ID that FHE.requestDecryption returns
submitEncryptedRecommendationRequest(h, reqId) ==
  /\ HasBudget
  /\ LET rid == nextRecommendationId
         ciphertexts == <<toBytes32(h.encryptedWateringSchedule),
                          toBytes32(h.encryptedNutrientPlan),
                          toBytes32(h.encryptedLightAdjust)>>
     IN  /\ recommendationCount' = rid
         /\ encryptedRecommendations' = [encryptedRecommendations EXCEPT ![rid] =
              [id |-> rid,
               encryptedWateringSchedule |-> h.encryptedWateringSchedule,
               encryptedNutrientPlan |-> h.encryptedNutrientPlan,
               encryptedLightAdjust |-> h.encryptedLightAdjust,
               generatedAt |-> blockTimestamp]]
         /\ counterRequest' = counterRequest + 1
         /\ registerRequest(reqId, rid, "recommendation")
         /\ recordIssue(reqId, "recommendation", rid)
         /\ last' = [Call("submitEncryptedRecommendationRequest") EXCEPT
              !.issued = reqId, !.ciphertexts = ciphertexts,
              !.events = <<Event("RecommendationRequested", rid, reqId, "")>>]
  /\ UNCHANGED <<readingCount, twinCount, readings, encryptedTwins, decryptedTwins,
                 decryptedRecommendations, encryptedMetricAggregates, metricKeys,
                 blockTimestamp, firstAddOrder, addedDeltas, succeeded,
                 delivered, frontend>>

\* variant of makeDecryptedRecommendation: nutrients is guarded by the
\* length test of lightAdjust
makeDecryptedRecommendation_guard(items) ==
  [watering |-> IF Len(items) > 0 THEN items[1] ELSE StrEmpty,
   nutrients |-> IF Len(items) > 2 THEN items[2] ELSE StrEmpty,
   lightAdjust |-> IF Len(items) > 2 THEN items[3] ELSE StrEmpty,
   revealed |-> TRUE]

\* the DecryptedRecommendation of lines 223-228
makeDecryptedRecommendation(items) ==
  [watering |-> IF Len(items) > 0 THEN items[1] ELSE StrEmpty,
   nutrients |-> IF Len(items) > 1 THEN items[2] ELSE StrEmpty,
   lightAdjust |-> IF Len(items) > 2 THEN items[3] ELSE StrEmpty,
   revealed |-> TRUE]

\* decryptRecommendation, lines 209-231
decryptRecommendation(requestId, cleartexts, proofOk) ==
  LET recId == resolveRequest(requestId)
      call == [Call("decryptRecommendation") EXCEPT
                 !.requestId = requestId, !.cleartexts = cleartexts,
                 !.proofOk = proofOk, !.entity = recId]
      checked == [call EXCEPT !.verifierCalled = TRUE]
      decoded == decodeStringArray(cleartexts)
  IN  IF ~isRegistered(recId) THEN Revert(call, "Invalid request")
      ELSE IF ~checkSignatures(proofOk) THEN Revert(checked, "checkSignatures")
      ELSE IF ~decoded.ok THEN Revert(checked, "abi.decode")
      ELSE /\ decryptedRecommendations' = [decryptedRecommendations EXCEPT ![recId] =
                makeDecryptedRecommendation(decoded.parts)]
           /\ last' = [checked EXCEPT
                !.events = <<Event("RecommendationDecrypted", recId, 0, "")>>]
           /\ succeeded' = succeeded \cup
                {[op |-> "decryptRecommendation", requestId |-> requestId, entity |-> recId,
                  at |-> blockTimestamp]}
           /\ delivered' = [delivered EXCEPT !["decryptRecommendation"][requestId] = cleartexts]
           /\ UNCHANGED <<readingCount, twinCount, recommendationCount,
                          readings, encryptedTwins, decryptedTwins,
                          encryptedRecommendations,
                          encryptedMetricAggregates, metricKeys,
                          requestToEntityId, requestToTag,
                          counterRequest, blockTimestamp,
                          issuedFor, firstAddOrder, addedDeltas, replaced, frontend>>

\* variant of needsInit: no add takes the initialization branch
needsInit_never(agg) == FALSE

\* variant of needsInit: every add takes the initialization branch
needsInit_always(agg) == TRUE

\* the guard of line 235: the key has no accumulator yet
needsInit(agg) == ~isInitialized(agg)

\* variant of accumulate: the delta is added to a fresh zero
accumulate_fromZero(agg, encryptedDelta) == FHEadd(asEuint32(U32(0)), encryptedDelta)

\* line 239: the new accumulator
accumulate(agg, encryptedDelta) == FHEadd(agg, encryptedDelta)

\* addEncryptedAggregate, lines 234-240
addEncryptedAggregate(key, encryptedDelta) ==
  /\ HasBudget
  /\ LET fresh == needsInit(encryptedMetricAggregates[key])
         start == IF fresh THEN asEuint32(U32(0)) ELSE encryptedMetricAggregates[key]
     IN  /\ metricKeys' = IF fresh THEN Append(metricKeys, key) ELSE metricKeys
         /\ encryptedMetricAggregates' =
              [encryptedMetricAggregates EXCEPT ![key] = accumulate(start, encryptedDelta)]
  /\ firstAddOrder' =
       IF \E i \in 1..Len(firstAddOrder) : firstAddOrder[i] = key
       THEN firstAddOrder ELSE Append(firstAddOrder, key)
  /\ addedDeltas' = [addedDeltas EXCEPT ![key] = @ (+) SetToBag({encryptedDelta})]
  /\ last' = [Call("addEncryptedAggregate") EXCEPT !.key = key, !.delta = encryptedDelta]
  /\ UNCHANGED <<readingCount, twinCount, recommendationCount,
                 readings, encryptedTwins, decryptedTwins,
                 encryptedRecommendations, decryptedRecommendations,
                 requestToEntityId, requestToTag,
                 counterRequest, blockTimestamp, issuedFor, succeeded,
                 delivered, replaced, frontend>>

\* variant of metricExists: the require is missing
metricExists_unchecked(agg) == TRUE

\* require(FHE.isInitialized(agg), "Metric not found"), line 245
metricExists(agg) == isInitialized(agg)

\* requestAggregateDecryption, lines 243-253; reqId is the request ID that
\* FHE.requestDecryption returns
requestAggregateDecryption(key, reqId) ==
  LET agg == encryptedMetricAggregates[key]
      call == [Call("requestAggregateDecryption") EXCEPT !.key = key]
  IN  IF ~metricExists(agg)
      THEN Revert(call, "Metric not found")
      ELSE /\ HasBudget
           /\ counterRequest' = counterRequest + 1
           /\ registerRequest(reqId, Keccak(key), "aggregate")
           /\ recordIssue(reqId, "aggregate", Keccak(key))
           /\ last' = [call EXCEPT
                !.issued = reqId, !.ciphertexts = <<toBytes32(agg)>>]
           /\ UNCHANGED <<readingCount, twinCount, recommendationCount,
                          readings, encryptedTwins, decryptedTwins,
                          encryptedRecommendations, decryptedRecommendations,
                          encryptedMetricAggregates, metricKeys,
                          blockTimestamp, firstAddOrder, addedDeltas, succeeded,
                          delivered, frontend>>

\* findMetricKeyByHash, lines 314-321: the scan from index i
RECURSIVE findMetricKeyFrom(_, _)
findMetricKeyFrom(hash, i) ==
  IF i > Len(metricKeys) THEN [ok |-> FALSE, key |-> ""]
  ELSE IF Keccak(metricKeys[i]) = hash THEN [ok |-> TRUE, key |-> metricKeys[i]]
  ELSE findMetricKeyFrom(hash, i + 1)

\* variant of findMetricKeyByHash: the scan starts at the second key
findMetricKeyByHash_fromSecond(hash) == findMetricKeyFrom(hash, 2)

findMetricKeyByHash(hash) == findMetricKeyFrom(hash, 1)

\* variant of emitPlainAggregateResult: the plaintext is also kept in the
\* decrypted view stored under the key hash
emitPlainAggregateResult_stored(call, key, value) ==
  /\ last' = [call EXCEPT !.key = key, !.value = value,
       !.events = <<Event("PlainAggregateResult", 0, 0, key)>>]
  /\ decryptedTwins' = [decryptedTwins EXCEPT ![Keccak(key)] =
       [stateSummary |-> StrEmpty, healthScore |-> value, revealed |-> TRUE]]
  /\ UNCHANGED <<readingCount, twinCount, recommendationCount,
                 readings, encryptedTwins,
                 encryptedRecommendations, decryptedRecommendations,
                 encryptedMetricAggregates, metricKeys,
                 requestToEntityId, requestToTag>>

\* emitPlainAggregateResult(key, value), lines 270-272 and 277-279: the
\* event is all there is; the uint32 argument of the event is kept in the
\* field `value` of the observation
emitPlainAggregateResult(call, key, value) ==
  /\ last' = [call EXCEPT !.key = key, !.value = value,
       !.events = <<Event("PlainAggregateResult", 0, 0, key)>>]
  /\ UNCHANGED storage

\* decryptAggregate, lines 256-273: the proof is verified first, the
\* correlator is read second, and nothing is written to storage
decryptAggregate(requestId, cleartexts, proofOk) ==
  LET keyHash == resolveRequest(requestId)
      call == [Call("decryptAggregate") EXCEPT
                 !.requestId = requestId, !.cleartexts = cleartexts,
                 !.proofOk = proofOk, !.verifierCalled = TRUE]
      looked == [call EXCEPT !.entity = keyHash]
      found == findMetricKeyByHash(keyHash)
      decoded == decodeUint32(cleartexts)
  IN  IF ~checkSignatures(proofOk) THEN Revert(call, "checkSignatures")
      ELSE IF ~found.ok THEN Revert(looked, "Metric key not found")
      ELSE IF ~decoded.ok THEN Revert(looked, "abi.decode")
      ELSE /\ emitPlainAggregateResult(looked, found.key, decoded.value)
           /\ UNCHANGED <<counterRequest, blockTimestamp, history, frontend>>

\* view helpers, lines 282-294
getEncryptedMetric(key) == encryptedMetricAggregates[key]
getDecryptedTwin(twinId) ==
  LET d == decryptedTwins[twinId] IN <<d.stateSummary, d.healthScore, d.revealed>>
getDecryptedRecommendation(recId) ==
  LET r == decryptedRecommendations[recId]
  IN  <<r.watering, r.nutrients, r.lightAdjust, r.revealed>>

\* ------------------------------------------------------- inputs of the runs
ReadingInputs ==
  {[encryptedTimestamp |-> Enc(U32(t)), encryptedTemperature |-> Enc(U32(t + 1)),
    encryptedHumidity |-> Enc(U32(t + 2)), encryptedCO2 |-> Enc(U32(t + 3)),
    encryptedLight |-> Enc(U32(t + 4)), encryptedSoilMoisture |-> Enc(U32(t + 5))] :
     t \in {10}}

RecommendationInputs ==
  {[encryptedWateringSchedule |-> Enc(U32(1)), encryptedNutrientPlan |-> Enc(U32(2)),
    encryptedLightAdjust |-> Enc(U32(3))]}

PayloadTwin == StringsPayload(<<StrHealthy, Str85>>)
PayloadNumber == Uint32Payload(U32(7))

\* One transaction of the contract, its arguments drawn from the sets of I.
Txs(I) ==
  \/ mineBlock
  \/ \E h \in ReadingInputs : submitEncryptedReading(h)
  \/ \E s \in I.callers, t \in I.twinIds, ids \in I.idLists,
          q \in requestDecryptionIds(I.reusing) : requestTwinUpdate(s, t, ids, q)
  \/ \E r \in I.requestIds, c \in I.twinPayloads, ok \in I.proofs :
       decryptTwinUpdate(r, c, ok)
  \/ \E h \in RecommendationInputs, q \in requestDecryptionIds(I.reusing) :
       submitEncryptedRecommendationRequest(h, q)
  \/ \E r \in I.requestIds, c \in I.recPayloads, ok \in I.proofs :
       decryptRecommendation(r, c, ok)
  \/ \E k \in I.keys, d \in I.deltas : addEncryptedAggregate(k, d)
  \/ \E k \in I.keys, q \in requestDecryptionIds(I.reusing) :
       requestAggregateDecryption(k, q)
  \/ \E r \in I.requestIds, c \in I.aggPayloads, ok \in I.proofs :
       decryptAggregate(r, c, ok)

\* The contract under arbitrary callers and an arbitrary oracle.  Callbacks
\* come for the first two request IDs and for MaxWork, an ID that is never
\* handed out.
Inputs ==
  [callers |-> {"alice"}, reusing |-> FALSE,
   twinIds |-> {0, 2}, idLists |-> {<< >>, <<1>>},
   requestIds |-> {0, 1, MaxWork}, proofs |-> BOOLEAN,
   twinPayloads |-> {PayloadTwin}, recPayloads |-> {PayloadTwin},
   aggPayloads |-> {PayloadTwin},
   keys |-> {"total_water"}, deltas |-> {Enc(U32(1))}]

Next == Txs(Inputs)

Spec == Init /\ [][Next]_vars

\* The decoding of callback payloads: one twin, every payload shape, and a
\* verifier that accepts.
TwinPayloads ==
  {StringsPayload(<< >>),
   StringsPayload(<<StrHealthy>>),
   StringsPayload(<<StrHealthy, Str85>>),
   StringsPayload(<<StrW, StrN, StrL>>),
   StringsPayload(<<StrHealthy, Str8a>>),
   StringsPayload(<<StrHealthy, StrA8>>),
   StringsPayload(<<StrHealthy, StrEmpty>>),
   StringsPayload(<<StrHealthy, StrMaxU32>>),
   StringsPayload(<<StrHealthy, StrOverflow>>),
   Uint32Payload(U32(0)), Uint32Payload(U32(7)), MalformedPayload}

RecommendationPayloads ==
  {StringsPayload(<< >>),
   StringsPayload(<<StrW>>),
   StringsPayload(<<StrW, StrN>>),
   StringsPayload(<<StrW, StrN, StrL>>),
   StringsPayload(<<StrW, StrN, StrL, StrHealthy>>)}

DecodeInputs ==
  [callers |-> {"alice"}, reusing |-> FALSE,
   twinIds |-> {1}, idLists |-> {<<1>>},
   requestIds |-> {0}, proofs |-> {TRUE},
   twinPayloads |-> TwinPayloads, recPayloads |-> RecommendationPayloads,
   aggPayloads |-> {PayloadNumber},
   keys |-> {"total_water"}, deltas |-> {Enc(U32(1))}]

NextDecode == Txs(DecodeInputs)

SpecDecode == Init /\ [][NextDecode]_vars

\* The aggregate registry: two keys, deltas that wrap around 2^32 and an
\* uninitialized delta handle.
AggregateInputs ==
  [callers |-> {"alice"}, reusing |-> FALSE,
   twinIds |-> {1}, idLists |-> {<<1>>},
   requestIds |-> RequestIds, proofs |-> {TRUE},
   twinPayloads |-> {PayloadTwin}, recPayloads |-> {PayloadTwin},
   aggPayloads |-> {PayloadNumber},
   keys |-> MetricKeyNames, deltas |-> {Uninit, Enc(U32(1)), Enc(MaxUint32)}]

NextAggregate == Txs(AggregateInputs)

SpecAggregate == Init /\ [][NextAggregate]_vars

\* The order of callbacks: two twins, two requests and, for the twin
\* callback, two payloads.
PayloadRecommendation == StringsPayload(<<StrW, StrN, StrL>>)

OrderInputs ==
  [callers |-> {"alice"}, reusing |-> FALSE,
   twinIds |-> {1, 2}, idLists |-> {<<1>>},
   requestIds |-> {0, 1}, proofs |-> {TRUE},
   twinPayloads |-> {PayloadTwin, PayloadRecommendation},
   recPayloads |-> {PayloadRecommendation},
   aggPayloads |-> {PayloadNumber},
   keys |-> {"total_water"}, deltas |-> {Enc(U32(1))}]

NextOrder == Txs(OrderInputs)

SpecOrder == Init /\ [][NextOrder]_vars

\* Two callers of requestTwinUpdate.
CallerInputs ==
  [callers |-> {"alice", "bob"}, reusing |-> FALSE,
   twinIds |-> {2}, idLists |-> {<< >>, <<1>>},
   requestIds |-> {0}, proofs |-> {TRUE},
   twinPayloads |-> {PayloadTwin}, recPayloads |-> {PayloadRecommendation},
   aggPayloads |-> {PayloadNumber},
   keys |-> {"total_water"}, deltas |-> {Enc(U32(1))}]

NextCallers == Txs(CallerInputs)

SpecCallers == Init /\ [][NextCallers]_vars

\* An oracle that may hand out a request ID it handed out before.
ReuseInputs ==
  [callers |-> {"alice"}, reusing |-> TRUE,
   twinIds |-> {2}, idLists |-> {<<1>>},
   requestIds |-> {0, 1}, proofs |-> {TRUE},
   twinPayloads |-> {PayloadTwin}, recPayloads |-> {PayloadRecommendation},
   aggPayloads |-> {PayloadNumber},
   keys |-> {"total_water"}, deltas |-> {Enc(U32(1))}]

NextReuse == Txs(ReuseInputs)

SpecReuse == Init /\ [][NextReuse]_vars

\* Reading IDs that name no stored reading: 0, an ID above readingCount and
\* a repeated ID.
UnknownIdInputs ==
  [callers |-> {"alice"}, reusing |-> FALSE,
   twinIds |-> {2}, idLists |-> {<< >>, <<0>>, <<1>>, <<3, 1, 1, 0>>},
   requestIds |-> {0}, proofs |-> {TRUE},
   twinPayloads |-> {PayloadTwin}, recPayloads |-> {PayloadRecommendation},
   aggPayloads |-> {PayloadNumber},
   keys |-> {"total_water"}, deltas |-> {Enc(U32(1))}]

NextUnknownIds == Txs(UnknownIdInputs)

SpecUnknownIds == Init /\ [][NextUnknownIds]_vars

\* ================================================= the front-end: loadData
\* bytes.length of a stored value
byteLength(bytes) == IF bytes.kind = "empty" THEN 0 ELSE 1

\* JSON.parse(ethers.toUtf8String(bytes)): throws on bytes that are no JSON
\* text (or no UTF-8), otherwise gives the JSON value
parseJson(bytes) ==
  IF bytes.kind \in {"null", "keys", "record"}
  THEN [ok |-> TRUE, value |-> bytes]
  ELSE [ok |-> FALSE, value |-> JsonNull]

\* contract.getData(key): the promise rejects for the keys of env.failing
getData(env, key) ==
  IF key \in env.failing THEN [ok |-> FALSE, bytes |-> BytesEmpty]
  ELSE [ok |-> TRUE, bytes |-> store[key]]

\* checkContractAvailability, lines 96-112: a missing contract, isAvailable()
\* returning false and any exception all give false
checkContractAvailability(env) == env.available = "ok"

\* variant of readIndex: a failed parse is not caught and leaves no array
readIndex_unguarded(bytes) ==
  IF byteLength(bytes) = 0 THEN JsonKeys(<< >>)
  ELSE IF parseJson(bytes).ok THEN parseJson(bytes).value
  ELSE JsonNull

\* lines 125-133 and 166-174 (and 245-253, 342-350 of the submits): the keys
\* variable after the guarded parse; a failed parse is logged and leaves
\* the empty array
readIndex(bytes) ==
  IF byteLength(bytes) > 0 /\ parseJson(bytes).ok
  THEN parseJson(bytes).value
  ELSE JsonKeys(<< >>)

\* for (const key of keys): only an array can be iterated, null throws
isIterable(value) == value.kind = "keys"

\* one pass of the loops of lines 137-159 and 178-199, from index i: a
\* rejected getData, an empty value, a failed parse and a property read on
\* null are all skipped (the values stored under record keys are bytes
\* that do not parse, null or JSON objects)
RECURSIVE loadRecordsFrom(_, _, _, _)
loadRecordsFrom(env, prefix, keys, i) ==
  IF i > Len(keys) THEN << >>
  ELSE LET key == keys[i]
           got == getData(env, prefix \o key)
           parsed == parseJson(got.bytes)
           rest == loadRecordsFrom(env, prefix, keys, i + 1)
       IN  IF got.ok /\ byteLength(got.bytes) > 0 /\ parsed.ok
              /\ parsed.value.kind = "record"
           THEN <<[id |-> key, timestamp |-> parsed.value.timestamp]>> \o rest
           ELSE rest

\* list.sort((a, b) => b.timestamp - a.timestamp): stable, newest first
RECURSIVE insertByTimestamp(_, _)
insertByTimestamp(entry, sorted) ==
  IF sorted = << >> THEN <<entry>>
  ELSE IF Head(sorted).timestamp >= entry.timestamp
       THEN <<Head(sorted)>> \o insertByTimestamp(entry, Tail(sorted))
       ELSE <<entry>> \o sorted
\* variant of sortNewestFirst: the list is left in index order
sortNewestFirst_unsorted(list) == list

RECURSIVE sortNewestFirst(_)
sortNewestFirst(list) ==
  IF list = << >> THEN << >>
  ELSE insertByTimestamp(list[Len(list)], sortNewestFirst(SubSeq(list, 1, Len(list) - 1)))

\* the outcome of the try block of loadData
LoadOutcome(raised, sensorSet, sensorList, adviceSet, adviceList) ==
  [raised |-> raised, sensorSet |-> sensorSet, sensorList |-> sensorList,
   adviceSet |-> adviceSet, adviceList |-> adviceList]

\* lines 164-202: the advice half, reached after setSensorData(sensorList)
loadAdvice(env, sensorList) ==
  LET index == getData(env, "advice_keys")
      adviceKeys == readIndex(index.bytes)
  IN  IF ~index.ok \/ ~isIterable(adviceKeys)
      THEN LoadOutcome(TRUE, TRUE, sensorList, FALSE, << >>)
      ELSE LoadOutcome(FALSE, TRUE, sensorList, TRUE,
             sortNewestFirst(loadRecordsFrom(env, "advice_", adviceKeys.keys, 1)))

\* lines 117-202: the try block of loadData; raised = an exception left it
loadDataTry(env) ==
  LET nothing == LoadOutcome(FALSE, FALSE, << >>, FALSE, << >>)
      index == getData(env, "sensor_keys")
      sensorKeys == readIndex(index.bytes)
  IN  IF ~checkContractAvailability(env) THEN nothing
      ELSE IF env.contract = "null" THEN nothing
      ELSE IF env.contract = "throws" THEN [nothing EXCEPT !.raised = TRUE]
      ELSE IF ~index.ok \/ ~isIterable(sensorKeys)
           THEN [nothing EXCEPT !.raised = TRUE]
      ELSE loadAdvice(env,
             sortNewestFirst(loadRecordsFrom(env, "sensor_", sensorKeys.keys, 1)))

\* catch (e) { console.error(...) }, lines 203-205
catchAndLog(outcome) == [outcome EXCEPT !.raised = FALSE]

\* loadData up to its first await: setIsRefreshing(true), line 115
loadDataStart ==
  /\ loadPc = "idle"
  /\ loadPc' = "running"
  /\ isRefreshing' = TRUE
  /\ UNCHANGED <<store, sensorData, farmingAdvice, loading, lastLoad,
                 submits, progress, provider, contractVars>>

\* what loadData does to the React state after its first await, lines
\* 116-208, in the environment env
applyLoad(env) ==
  /\ LET outcome == catchAndLog(loadDataTry(env))
     IN  /\ sensorData' = IF outcome.sensorSet THEN outcome.sensorList ELSE sensorData
         /\ farmingAdvice' = IF outcome.adviceSet THEN outcome.adviceList ELSE farmingAdvice
         /\ lastLoad' = [ran |-> TRUE, env |-> env, threw |-> outcome.raised,
                         sensorSet |-> outcome.sensorSet, adviceSet |-> outcome.adviceSet]
  /\ isRefreshing' = FALSE
  /\ loading' = FALSE

\* the rest of a loadData run that the page started (lines 68-70 and the
\* refresh button), in the environment env
loadDataFinish(env) ==
  /\ loadPc = "running"
  /\ applyLoad(env)
  /\ loadPc' = "idle"
  /\ UNCHANGED <<store, submits, progress, provider, contractVars>>

\* ============================================== the front-end: the submits
\* contract.setData(key, value), once its promise has resolved
setData(st, key, value) == [st EXCEPT ![key] = value]

\* variant of recordBytes: the record is written as empty bytes
recordBytes_empty(timestamp) == BytesEmpty

\* ethers.toUtf8Bytes(JSON.stringify(sensorData)), lines 232-242 and
\* 328-339: a JSON object that carries the timestamp
recordBytes(timestamp) == JsonRecord(timestamp)

\* variant of pushKey: the new ID is put in front
pushKey_front(keys, id) == <<id>> \o keys

\* keys.push(sensorId), lines 255 and 352
pushKey(keys, id) == Append(keys, id)

\* the position in NewIds of the ID the next submit draws (0: none left)
NextNew ==
  IF \E i \in 1..Len(NewIds) : progress[i].stage = "unused"
  THEN CHOOSE i \in 1..Len(NewIds) :
         /\ progress[i].stage = "unused"
         /\ \A j \in 1..(i - 1) : progress[j].stage # "unused"
  ELSE 0

\* the position in NewIds of an ID
PositionOf(id) == CHOOSE i \in 1..Len(NewIds) : NewIds[i] = id

Advance(id, stage) == [progress EXCEPT ![PositionOf(id)].stage = stage]

\* variant of failSubmit: the finally block is missing
failSubmit_busy(run, e) ==
  [run EXCEPT !.pc = "idle", !.status = "error", !.message = e, !.timer = TRUE]

\* the catch and finally blocks, lines 280-296 and 376-392, for an
\* exception whose message is e: the error banner, the timer that hides
\* it, setCreating(false)
failSubmit(run, e) ==
  [run EXCEPT !.pc = "idle", !.status = "error", !.message = e,
              !.timer = TRUE, !.creating = FALSE]

\* lines 212-225 and 300-321: the submit button is pressed (it is disabled
\* while creating is set).  Without a provider the handler alerts and
\* returns; otherwise the pending banner, setCreating(true), then the await
\* of the signer.  The ID and the record of lines 230-236 are drawn here.
beginSubmit(c, kind) ==
  /\ submits[c].pc = "idle"
  /\ IF ~provider[c]
     THEN /\ submits' = [submits EXCEPT ![c].alert = "Please connect wallet first"]
          /\ UNCHANGED progress
     ELSE /\ NextNew # 0
          /\ submits' = [submits EXCEPT ![c] =
               [@ EXCEPT !.pc = "signer", !.kind = kind, !.id = NewIds[NextNew],
                         !.keysBytes = BytesEmpty, !.keys = << >>,
                         !.status = "pending", !.message = "",
                         !.creating = TRUE, !.alert = ""]]
          /\ progress' = [progress EXCEPT ![NextNew] = [kind |-> kind, stage |-> "started"]]
  /\ UNCHANGED <<store, lists, loadPc, provider, contractVars>>

\* submitSensorData, lines 211-297, up to its first await
submitSensorData(c) == beginSubmit(c, "sensor")

\* submitFarmingAdvice, lines 299-393, up to its first await (a sensor
\* reading is selected)
submitFarmingAdvice(c) == beginSubmit(c, "advice")

\* lines 225-242 and 321-339: getContractWithSigner has settled; with a
\* contract the record write is sent, without one the run fails
gotSigner(c, ok) ==
  /\ submits[c].pc = "signer"
  /\ submits' = [submits EXCEPT ![c] =
       IF ok THEN [@ EXCEPT !.pc = "record"] ELSE failSubmit(@, NoSigner)]
  /\ UNCHANGED <<store, lists, loadPc, progress, provider, contractVars>>

\* lines 239-244 and 336-341: setData("<kind>_<id>", record) has settled;
\* when it resolved the record is stored and the index read is sent
recordWritten(c, ok) ==
  LET run == submits[c]
  IN  /\ run.pc = "record"
      /\ IF ok
         THEN /\ store' = setData(store, RecordKey(run.kind, run.id),
                                  recordBytes(PositionOf(run.id) + 1))
              /\ progress' = Advance(run.id, "recordStored")
              /\ submits' = [submits EXCEPT ![c].pc = "index"]
         ELSE /\ submits' = [submits EXCEPT ![c] = failSubmit(@, Rejected)]
              /\ UNCHANGED <<store, progress>>
      /\ UNCHANGED <<lists, loadPc, provider, contractVars>>

\* lines 244-260 and 341-357: getData("<kind>_keys") has settled; the
\* guarded parse, keys.push(id) (a TypeError on a parsed null) and the
\* index write is sent
indexRead(c, ok) ==
  LET run == submits[c]
      keysBytes == store[IndexKey(run.kind)]
      keys == readIndex(keysBytes)
  IN  /\ run.pc = "index"
      /\ submits' = [submits EXCEPT ![c] =
           IF ~ok THEN failSubmit(@, Rejected)
           ELSE IF ~isIterable(keys)
           THEN failSubmit([@ EXCEPT !.keysBytes = keysBytes], PushTypeError)
           ELSE [@ EXCEPT !.pc = "write", !.keysBytes = keysBytes,
                          !.keys = pushKey(keys.keys, run.id)]]
      /\ UNCHANGED <<store, lists, loadPc, progress, provider, contractVars>>

\* lines 257-268 and 354-365: setData("<kind>_keys", keys) has settled;
\* when it resolved the index is stored, the success banner is set and
\* loadData is called, which begins with setIsRefreshing(true) (the lists
\* of the second browser are not part of the model)
indexWritten(c, ok) ==
  LET run == submits[c]
  IN  /\ run.pc = "write"
      /\ IF ok
         THEN /\ store' = setData(store, IndexKey(run.kind), JsonKeys(run.keys))
              /\ progress' = Advance(run.id, "indexed")
              /\ submits' = [submits EXCEPT ![c] =
                   [@ EXCEPT !.pc = "load", !.status = "success"]]
              /\ isRefreshing' = IF c = "app" THEN TRUE ELSE isRefreshing
         ELSE /\ submits' = [submits EXCEPT ![c] = failSubmit(@, Rejected)]
              /\ UNCHANGED <<store, progress, isRefreshing>>
      /\ UNCHANGED <<sensorData, farmingAdvice, loading, lastLoad, loadPc, provider,
                     contractVars>>

\* lines 268-279, 294-296 and 365-375, 390-392: the loadData that the
\* submit awaits has finished in the environment env (it never throws);
\* the timer that hides the banner is set, then setCreating(false)
submitLoaded(c, env) ==
  /\ submits[c].pc = "load"
  /\ IF c = "app" THEN applyLoad(env) ELSE UNCHANGED lists
  /\ submits' = [submits EXCEPT ![c] =
       [@ EXCEPT !.pc = "idle", !.timer = TRUE, !.creating = FALSE]]
  /\ UNCHANGED <<store, loadPc, progress, provider, contractVars>>

\* the setTimeout callbacks of lines 270-279, 291-293, 367-375, 387-389:
\* the banner is hidden
statusTimeout(c) ==
  /\ submits[c].timer
  /\ submits' = [submits EXCEPT ![c] = [@ EXCEPT !.status = "none", !.timer = FALSE]]
  /\ UNCHANGED <<store, lists, loadPc, progress, provider, contractVars>>

\* onWalletSelect, lines 72-88, up to its first await: setProvider
onWalletSelect(c) ==
  /\ ~provider[c]
  /\ provider' = [provider EXCEPT ![c] = TRUE]
  /\ UNCHANGED <<store, lists, loadPc, submits, progress, contractVars>>

\* onDisconnect, lines 91-94: setProvider(null); a submit that is running
\* keeps the contract it holds
onDisconnect(c) ==
  /\ provider[c]
  /\ provider' = [provider EXCEPT ![c] = FALSE]
  /\ UNCHANGED <<store, lists, loadPc, submits, progress, contractVars>>

\* the environments of a run
Failings == {{}, {"sensor_keys"}, {"advice_keys"}, {SensorKey("a")}, {AdviceKey("a")}}
Envs ==
  {Env("ok", "ok", f) : f \in Failings} \cup
  {Env(a, "ok", {}) : a \in {"null", "false", "throws"}} \cup
  {Env("ok", c, {}) : c \in {"null", "throws"}}

\* the contents of the store
Stores ==
  {[k \in StoreKeys |->
      CASE k = "sensor_keys" -> sk
        [] k = "sensor_a" -> sa
        [] k = "sensor_b" -> sb
        [] k = "advice_keys" -> ak
        [] k = "advice_a" -> aa
        [] OTHER -> BytesEmpty] :
     sk \in {BytesEmpty, BytesGarbage, JsonNull, JsonKeys(<<"a", "b">>)},
     sa \in {BytesEmpty, BytesGarbage, JsonNull, JsonRecord(1), JsonRecord(3)},
     sb \in {BytesGarbage, JsonRecord(2)},
     ak \in {BytesGarbage, JsonKeys(<<"a">>)},
     aa \in {BytesEmpty, JsonRecord(1)}}

\* the store as a behaviour finds it: any of the contents above
InitFrontend == InitContract /\ InitApp /\ store \in Stores /\ provider = NoProvider

NextFrontend ==
  \/ loadDataStart
  \/ \E env \in Envs : loadDataFinish(env)

SpecFrontend == InitFrontend /\ [][NextFrontend]_vars

\* Two browsers that submit: the store holds record a of each kind; the
\* sensor index lists it, is empty, or is corrupt.
SubmitStores ==
  {[k \in StoreKeys |->
      CASE k = "sensor_keys" -> sk
        [] k = "advice_keys" -> JsonKeys(<<"a">>)
        [] k \in {"sensor_a", "advice_a"} -> JsonRecord(1)
        [] OTHER -> BytesEmpty] :
     sk \in {BytesEmpty, BytesGarbage, JsonNull, JsonKeys(<<"a">>)}}

SubmitEnvs == {Env("ok", "ok", {}), Env("false", "ok", {})}

InitSubmit == InitContract /\ InitApp /\ store \in SubmitStores /\ provider = Connected

NextSubmit ==
  \/ \E c \in Clients : submitSensorData(c)
  \/ \E c \in Clients : submitFarmingAdvice(c)
  \/ \E c \in Clients, ok \in BOOLEAN : gotSigner(c, ok)
  \/ \E c \in Clients, ok \in BOOLEAN : recordWritten(c, ok)
  \/ \E c \in Clients, ok \in BOOLEAN : indexRead(c, ok)
  \/ \E c \in Clients, ok \in BOOLEAN : indexWritten(c, ok)
  \/ \E c \in Clients, env \in SubmitEnvs : submitLoaded(c, env)
  \/ \E c \in Clients : statusTimeout(c)
  \/ loadDataStart
  \/ \E env \in SubmitEnvs : loadDataFinish(env)

SpecSubmit == InitSubmit /\ [][NextSubmit]_vars

\* One page from its mount: the loadData of the effect of lines 68-70 is
\* awaiting, the wallet is connected and disconnected, both kinds of submit
\* are run one after the other, the refresh button is pressed; the sensor
\* index lists record a and the advice index is null.
PageStore ==
  [k \in StoreKeys |->
     CASE k = "sensor_keys" -> JsonKeys(<<"a">>)
       [] k = "advice_keys" -> JsonNull
       [] k \in {"sensor_a", "advice_a"} -> JsonRecord(1)
       [] OTHER -> BytesEmpty]

PageEnvs == {Env("ok", "ok", {}), Env("false", "ok", {}), Env("ok", "null", {})}

InitPage ==
  /\ InitContract
  /\ sensorData = << >> /\ farmingAdvice = << >>
  /\ loading = TRUE /\ lastLoad = NoLoad
  /\ isRefreshing = TRUE /\ loadPc = "running"
  /\ submits = [c \in Clients |-> NoRun]
  /\ progress = [i \in 1..Len(NewIds) |-> [kind |-> "sensor", stage |-> "unused"]]
  /\ store = PageStore
  /\ provider = NoProvider

\* the continuation of the page's submit after the promise it awaits has
\* settled
submitContinues ==
  \/ \E ok \in BOOLEAN : gotSigner("app", ok)
  \/ \E ok \in BOOLEAN : recordWritten("app", ok)
  \/ \E ok \in BOOLEAN : indexRead("app", ok)
  \/ \E ok \in BOOLEAN : indexWritten("app", ok)
  \/ \E env \in PageEnvs : submitLoaded("app", env)

NextPage ==
  \/ onWalletSelect("app")
  \/ onDisconnect("app")
  \/ submitSensorData("app")
  \/ submitFarmingAdvice("app")
  \/ submitContinues
  \/ statusTimeout("app")
  \/ loadDataStart
  \/ \E env \in PageEnvs : loadDataFinish(env)

SpecPage == InitPage /\ [][NextPage]_vars

\* The page when every promise its submit awaits settles (the signer, the
\* two setData calls, getData and loadData): the continuation after an
\* await is run once the promise has settled.  For the awaited loadData the
\* step of one environment stands for the step of any: they are enabled
\* in the same states, exactly while the run is at that await, and each of
\* them ends the await, so weak fairness of one is weak fairness of all.
submitSettles ==
  \/ \E ok \in BOOLEAN : gotSigner("app", ok)
  \/ \E ok \in BOOLEAN : recordWritten("app", ok)
  \/ \E ok \in BOOLEAN : indexRead("app", ok)
  \/ \E ok \in BOOLEAN : indexWritten("app", ok)
  \/ submitLoaded("app", Env("false", "ok", {}))

SpecPageFair == SpecPage /\ WF_vars(submitSettles)

\* ================================================================ claims
Callbacks == WritingCallbacks \cup {"decryptAggregate"}

\* the request ID of a callback was obtained by a twin-update request for a
\* non-zero twin or by a recommendation request
IssuedForEntity(r) ==
  /\ issuedFor[r].kind \in {"twin_update", "recommendation"}
  /\ issuedFor[r].entity # 0

NeverIssued(r) == issuedFor[r].kind = "none"

\* ---------------------------------------------------------------------- C1
\* C1: a callback (decryptTwinUpdate or decryptRecommendation) invoked with
\* a passing proof and a request ID that requestTwinUpdate (twinId # 0) or
\* submitEncryptedRecommendationRequest obtained resolves to the entity
\* registered for that ID; it changes the decrypted views and the encrypted
\* twin record of no other entity, and when it succeeds it reveals that
\* entity and emits the decrypted event for it alone, whatever transactions
\* ran between the request and the callback.
C1_Step ==
  LET c == last'
  IN  (c.op \in WritingCallbacks /\ c.proofOk /\ IssuedForEntity(c.requestId)) =>
        LET e == issuedFor[c.requestId].entity
            twin == c.op = "decryptTwinUpdate"
        IN  /\ c.entity = e
            /\ \A x \in EntityIds \ {e} :
                 /\ decryptedTwins'[x] = decryptedTwins[x]
                 /\ encryptedTwins'[x] = encryptedTwins[x]
                 /\ decryptedRecommendations'[x] = decryptedRecommendations[x]
            /\ ~c.reverted =>
                 /\ c.events =
                      <<Event(IF twin THEN "TwinDecrypted" ELSE "RecommendationDecrypted",
                              e, 0, "")>>
                 /\ IF twin
                    THEN decryptedTwins'[e].revealed /\ encryptedTwins'[e].id = e
                    ELSE decryptedRecommendations'[e].revealed
C1_RoundTrip == [][C1_Step]_vars

\* a callback for request 0 succeeded after request 1 had been registered
\* for another entity
C1_Witness ==
  /\ last.op \in WritingCallbacks /\ ~last.reverted
  /\ last.requestId = 0 /\ IssuedForEntity(0)
  /\ ~NeverIssued(1) /\ issuedFor[1].entity # issuedFor[0].entity
  /\ last.entity = issuedFor[0].entity

\* ---------------------------------------------------------------------- C2
\* C2: a callback invoked with a request ID that no request ever obtained
\* reverts, whatever its cleartexts and proof: it emits no event, and the
\* revert rolls back every storage write (Revert), so the slot of the
\* "absent" entity 0 that the lookup returned holds no decrypted view and no
\* encrypted twin.
C2_UnregisteredRejected ==
  (last.op \in Callbacks /\ NeverIssued(last.requestId)) =>
    /\ last.reverted
    /\ last.events = << >>
    /\ last.issued = NoRequest
    /\ resolveRequest(last.requestId) = 0
    /\ decryptedTwins[0] = ZeroDecryptedTwin
    /\ encryptedTwins[0] = ZeroEncryptedTwin
    /\ decryptedRecommendations[0] = ZeroDecryptedRecommendation

\* decryptTwinUpdate with a passing proof and an unknown request ID, after
\* another request ID had been registered
C2_Witness ==
  /\ last.op = "decryptTwinUpdate" /\ last.proofOk
  /\ NeverIssued(last.requestId) /\ ~NeverIssued(0)
  /\ last.reverted /\ last.reason = "Invalid request id"

\* ---------------------------------------------------------------------- C3
\* C3: a callback whose proof fails verification reverts: it writes nothing
\* (Revert) and emits no TwinDecrypted, RecommendationDecrypted or
\* PlainAggregateResult event.
C3_UnverifiedRejected ==
  (last.op \in Callbacks /\ ~last.proofOk) =>
    /\ last.reverted
    /\ last.events = << >>

\* decryptTwinUpdate for a registered request is rejected by the verifier
C3_Witness ==
  /\ last.op = "decryptTwinUpdate" /\ ~last.proofOk
  /\ IssuedForEntity(last.requestId)
  /\ last.reverted /\ last.reason = "checkSignatures" /\ last.verifierCalled

\* ---------------------------------------------------------------------- C4
\* decimal reading of a uint32, used to state what a parsed score denotes
IsDigit(b) == b >= 48 /\ b <= 57
DigitRunLen(s) ==
  CHOOSE n \in 0..Len(s) :
    /\ \A i \in 1..n : IsDigit(s[i])
    /\ n = Len(s) \/ ~IsDigit(s[n + 1])
U32DivMod10(v) ==
  LET low == (v.hi % 10) * Limb + v.lo
  IN  [q |-> [hi |-> v.hi \div 10, lo |-> low \div 10], r |-> low % 10]
RECURSIVE LowDigits(_, _)
LowDigits(v, n) ==
  IF n = 0 THEN << >>
  ELSE Append(LowDigits(U32DivMod10(v).q, n - 1), U32DivMod10(v).r)
RECURSIVE DropDigits(_, _)
DropDigits(v, n) == IF n = 0 THEN v ELSE DropDigits(U32DivMod10(v).q, n - 1)
\* v is the number written by the decimal digits (bytes '0'..'9') of run
Denotes(v, run) ==
  /\ LowDigits(v, Len(run)) = [i \in 1..Len(run) |-> run[i] - 48]
  /\ DropDigits(v, Len(run)) = U32(0)

\* C4: after a successful decryptTwinUpdate for a request registered with
\* twinId whose payload decodes to at least two strings, decryptedTwins[twinId]
\* is (parts[0], the number written by the leading decimal digits of
\* parts[1], true), TwinDecrypted(twinId) is the event emitted, and
\* getDecryptedTwin(twinId) returns that triple; ["Healthy,85% moisture",
\* "85"] gives ("Healthy,85% moisture", 85, true).
C4_TwinDecoded ==
  LET c == last
      parts == c.cleartexts.parts
  IN  (/\ c.op = "decryptTwinUpdate" /\ ~c.reverted
       /\ issuedFor[c.requestId].kind = "twin_update"
       /\ c.cleartexts.kind = "strings" /\ Len(parts) >= 2) =>
        LET twinId == issuedFor[c.requestId].entity
            got == getDecryptedTwin(twinId)
        IN  /\ got[1] = parts[1]
            /\ Denotes(got[2], SubSeq(parts[2], 1, DigitRunLen(parts[2])))
            /\ got[3] = TRUE
            /\ decryptedTwins[twinId] =
                 [stateSummary |-> got[1], healthScore |-> got[2], revealed |-> TRUE]
            /\ c.events = <<Event("TwinDecrypted", twinId, 0, "")>>
            /\ parts = <<StrHealthy, Str85>> => got = <<StrHealthy, U32(85), TRUE>>

C4_Witness ==
  /\ last.op = "decryptTwinUpdate" /\ ~last.reverted
  /\ issuedFor[last.requestId] = [kind |-> "twin_update", entity |-> 1]
  /\ last.cleartexts = StringsPayload(<<StrHealthy, Str85>>)
  /\ getDecryptedTwin(1) = <<StrHealthy, U32(85), TRUE>>

\* ---------------------------------------------------------------------- C5
FieldOr(parts, i) == IF i <= Len(parts) THEN parts[i] ELSE StrEmpty

\* C5: for a registered request and a passing proof, a decoded string list
\* shorter than the schema is accepted: decryptTwinUpdate with 0 fields
\* stores ("", 0, true) and with 1 field (parts[0], 0, true);
\* decryptRecommendation with k < 3 fields stores the first k fields in
\* order, the empty string for each missing one, and revealed = true.
C5_BestEffortDecode ==
  LET c == last
      parts == c.cleartexts.parts
      short(schema) ==
        /\ c.proofOk /\ IssuedForEntity(c.requestId)
        /\ c.cleartexts.kind = "strings" /\ Len(parts) < schema
      e == issuedFor[c.requestId].entity
  IN  /\ (c.op = "decryptTwinUpdate" /\ short(2)) =>
            /\ ~c.reverted
            /\ getDecryptedTwin(e) = <<FieldOr(parts, 1), U32(0), TRUE>>
      /\ (c.op = "decryptRecommendation" /\ short(3)) =>
            /\ ~c.reverted
            /\ getDecryptedRecommendation(e) =
                 <<FieldOr(parts, 1), FieldOr(parts, 2), FieldOr(parts, 3), TRUE>>

\* decryptRecommendation stored two of three fields
C5_Witness ==
  /\ last.op = "decryptRecommendation" /\ ~last.reverted
  /\ IssuedForEntity(last.requestId)
  /\ last.cleartexts = StringsPayload(<<StrW, StrN>>)
  /\ getDecryptedRecommendation(issuedFor[last.requestId].entity) =
       <<StrW, StrN, StrEmpty, TRUE>>

\* ---------------------------------------------------------------------- C6
\* C6: for a registered request and a passing proof, decryptTwinUpdate
\* succeeds for every health-score string, also when its leading digits
\* denote a number above 2^32 - 1.
C6_AnyScoreAccepted ==
  LET c == last
  IN  (/\ c.op = "decryptTwinUpdate" /\ c.proofOk /\ IssuedForEntity(c.requestId)
       /\ c.cleartexts.kind = "strings" /\ Len(c.cleartexts.parts) >= 2) =>
        ~c.reverted

\* ---------------------------------------------------------------------- C7
\* C7: requestTwinUpdate with an empty readingIds array reverts before a
\* decryption request is issued: no request ID is obtained, no correlator
\* entry is written and TwinUpdateRequested is not emitted.
C7_EmptyRejected ==
  (last.op = "requestTwinUpdate" /\ last.readingIds = << >>) =>
    /\ last.reverted
    /\ last.issued = NoRequest
    /\ last.ciphertexts = << >>
    /\ last.events = << >>
    /\ \A r \in RequestIds : r >= counterRequest => requestToEntityId[r] = 0

C7_Witness ==
  /\ last.op = "requestTwinUpdate" /\ last.readingIds = << >> /\ last.twinId # 0
  /\ last.reverted /\ last.reason = "No readings provided"
  /\ counterRequest > 0

\* ---------------------------------------------------------------------- C8
\* C8: requestAggregateDecryption for a key that was never passed to
\* addEncryptedAggregate reverts: no decryption request is issued, no event
\* is emitted, the key is not in metricKeys and its accumulator stays
\* uninitialized.
C8_UnknownKeyRejected ==
  (last.op = "requestAggregateDecryption" /\ addedDeltas[last.key] = EmptyBag) =>
    /\ last.reverted
    /\ last.issued = NoRequest
    /\ last.events = << >>
    /\ \A i \in 1..Len(metricKeys) : metricKeys[i] # last.key
    /\ ~isInitialized(getEncryptedMetric(last.key))

C8_Witness ==
  /\ last.op = "requestAggregateDecryption" /\ addedDeltas[last.key] = EmptyBag
  /\ last.reverted /\ last.reason = "Metric not found"

\* ---------------------------------------------------------------------- C9
\* C9: metricKeys holds every key that was ever added exactly once, in the
\* order of the first add of each key.
C9_KeysOnce ==
  /\ \A i, j \in 1..Len(metricKeys) : i # j => metricKeys[i] # metricKeys[j]
  /\ metricKeys = firstAddOrder
  /\ {metricKeys[i] : i \in 1..Len(metricKeys)} =
       {k \in MetricKeyNames : addedDeltas[k] # EmptyBag}

\* the same key was added twice
C9_Witness ==
  /\ last.op = "addEncryptedAggregate"
  /\ BagCardinality(addedDeltas[last.key]) = 2
  /\ metricKeys = <<last.key>>

\* --------------------------------------------------------------------- C10
\* the plaintext sum modulo 2^32 of a bag of handles, limb by limb
RECURSIVE LimbTotals(_, _)
LimbTotals(b, S) ==
  IF S = {} THEN [hi |-> 0, lo |-> 0]
  ELSE LET h == CHOOSE x \in S : TRUE
           rest == LimbTotals(b, S \ {h})
       IN  [hi |-> rest.hi + CopiesIn(h, b) * PlainOf(h).hi,
            lo |-> rest.lo + CopiesIn(h, b) * PlainOf(h).lo]
PlainSum(b) ==
  LET t == LimbTotals(b, BagToSet(b))
  IN  [hi |-> (t.hi + (t.lo \div Limb)) % Limb, lo |-> t.lo % Limb]

\* C10: for every key the accumulator encrypts the sum modulo 2^32 of all
\* deltas added to that key, starting from zero at the first add; the value
\* depends on the multiset of those deltas only, not on their order nor on
\* adds to other keys.  A key that was never added has no accumulator.
C10_AccumulatorIsSum ==
  \A k \in MetricKeyNames :
    IF addedDeltas[k] = EmptyBag
    THEN ~isInitialized(getEncryptedMetric(k))
    ELSE getEncryptedMetric(k) = Enc(PlainSum(addedDeltas[k]))

\* 2^32 - 1 and 1 were added to one key, in either order: the sum wraps to 0
C10_Witness ==
  \E k \in MetricKeyNames :
    /\ addedDeltas[k] = SetToBag({Enc(MaxUint32), Enc(U32(1))})
    /\ getEncryptedMetric(k) = Enc(U32(0))

\* --------------------------------------------------------------------- C11
\* the key whose hash a requestAggregateDecryption registered
KeyOfHash(h) == CHOOSE k \in MetricKeyNames : Keccak(k) = h

DecryptedBy(op) == {x.entity : x \in {y \in succeeded : y.op = op}}

\* C12: getDecryptedTwin(id) returns revealed = true exactly for the ids
\* that some successful decryptTwinUpdate resolved to, and
\* getDecryptedRecommendation(id) exactly for the ids that some successful
\* decryptRecommendation resolved to.  The set of successful callbacks only
\* grows, so no other operation sets the flag, a set flag is never cleared,
\* and an entity without a successful callback stays unrevealed.
C12_RevealedMeansDecrypted ==
  \A id \in EntityIds :
    /\ getDecryptedTwin(id)[3] <=> id \in DecryptedBy("decryptTwinUpdate")
    /\ getDecryptedRecommendation(id)[4] <=> id \in DecryptedBy("decryptRecommendation")
    /\ ~getDecryptedTwin(id)[3] => decryptedTwins[id] = ZeroDecryptedTwin
    /\ ~getDecryptedRecommendation(id)[4] =>
         decryptedRecommendations[id] = ZeroDecryptedRecommendation

\* twin 2 is revealed; recommendation 1, requested as well, is still
\* waiting for its callback, and other transactions ran after the callback
\* of twin 2
C12_Witness ==
  /\ getDecryptedTwin(2)[3]
  /\ \E r \in RequestIds : issuedFor[r] = [kind |-> "recommendation", entity |-> 1]
  /\ ~getDecryptedRecommendation(1)[4]
  /\ \A id \in EntityIds \ {2} : ~getDecryptedTwin(id)[3]
  /\ last.op \notin Callbacks

\* --------------------------------------------------------------------- C13
\* C13: in every step a stored reading keeps its value, and a slot of
\* `readings` changes only in a submitEncryptedReading, which writes the one
\* slot readingCount + 1 and makes it the new readingCount; the stored
\* slots are exactly 1..readingCount.
C13_Step ==
  \A id \in ReadingIds :
    /\ readings[id] # ZeroReading => readings'[id] = readings[id]
    /\ readings'[id] # readings[id] =>
         /\ last'.op = "submitEncryptedReading" /\ ~last'.reverted
         /\ id = readingCount + 1 /\ readingCount' = id
         /\ readings'[id].id = id
         /\ \A other \in ReadingIds \ {id} : readings'[other] = readings[other]
    /\ readings'[id] # ZeroReading <=> (1 <= id /\ id <= readingCount')
C13_ReadingsImmutable == [][C13_Step]_vars

\* reading 1 is as submitted after a twin-update request that read it and a
\* successful callback
C13_Witness ==
  /\ readingCount = 1 /\ readings[1].id = 1
  /\ readings[1].encryptedTemperature = Enc(U32(11))
  /\ last.op = "decryptTwinUpdate" /\ ~last.reverted
  /\ issuedFor[last.requestId].kind = "twin_update"

\* --------------------------------------------------------------------- C14
\* C14: a step that is a successful decryptAggregate emits
\* PlainAggregateResult(key, value), value being the decoded payload, and
\* leaves every storage variable as it was: counters, readings, twins,
\* recommendations, accumulators, metricKeys and both correlator maps.
C14_Step ==
  (last'.op = "decryptAggregate" /\ ~last'.reverted) =>
    /\ storage' = storage
    /\ last'.events = <<Event("PlainAggregateResult", 0, 0, last'.key)>>
    /\ last'.value = decodeUint32(last'.cleartexts).value
C14_EventOnly == [][C14_Step]_vars

\* the total of "total_water" was revealed as 7 by event
C14_Witness ==
  /\ last.op = "decryptAggregate" /\ ~last.reverted
  /\ last.key = "total_water" /\ last.value = U32(7)
  /\ isInitialized(getEncryptedMetric("total_water"))
  /\ metricKeys = <<"total_water">>

\* --------------------------------------------------------------------- C15
\* C15: encryptedTwins[x] is the zero record until the first successful
\* decryptTwinUpdate that resolves to x; that callback stores id = x, both
\* handles the encryption of zero and lastUpdated = block.timestamp, and
\* counts the twin; every later successful callback for x sets lastUpdated
\* to the current block.timestamp and keeps id, handles and twinCount; no
\* other transaction changes the record.
C15_Step ==
  LET done == DecryptedBy("decryptTwinUpdate")
      done1 == DecryptedBy("decryptTwinUpdate")'
      zero == asEuint32(U32(0))
  IN  /\ \A x \in EntityIds :
           /\ x \notin done1 <=> encryptedTwins'[x] = ZeroEncryptedTwin
           /\ (x \notin done /\ x \in done1) =>
                /\ encryptedTwins[x].id = 0
                /\ encryptedTwins'[x] =
                     [id |-> x, encryptedStateHash |-> zero,
                      encryptedHealthScore |-> zero, lastUpdated |-> blockTimestamp]
                /\ twinCount' = twinCount + 1
           /\ x \in done =>
                /\ encryptedTwins'[x] =
                     [encryptedTwins[x] EXCEPT !.lastUpdated = encryptedTwins'[x].lastUpdated]
                /\ encryptedTwins'[x].id = x
                /\ (last' # last /\ last'.op = "decryptTwinUpdate"
                      /\ ~last'.reverted /\ last'.entity = x) =>
                     /\ encryptedTwins'[x].lastUpdated = blockTimestamp
                     /\ twinCount' = twinCount
           /\ encryptedTwins'[x] # encryptedTwins[x] =>
                last'.op = "decryptTwinUpdate" /\ ~last'.reverted /\ last'.entity = x
      /\ twinCount' = Cardinality(done1)
C15_LazyTwin == [][C15_Step]_vars

\* the record of twin 2 was created in block 1 and touched by a second
\* successful callback in block 2
C15_Witness ==
  /\ last.op = "decryptTwinUpdate" /\ ~last.reverted /\ last.entity = 2
  /\ blockTimestamp = 2 /\ twinCount = 1
  /\ \A t \in {1, 2} :
       [op |-> "decryptTwinUpdate", requestId |-> 0, entity |-> 2, at |-> t] \in succeeded
  /\ encryptedTwins[2] =
       [id |-> 2, encryptedStateHash |-> Enc(U32(0)),
        encryptedHealthScore |-> Enc(U32(0)), lastUpdated |-> 2]
  /\ \A x \in EntityIds \ {2} : encryptedTwins[x] = ZeroEncryptedTwin

\* --------------------------------------------------------------------- C16
\* the keys of an index value whose record loadData can fetch and parse
Loadable(env, prefix, index) ==
  {k \in {index.keys[i] : i \in 1..Len(index.keys)} :
     /\ (prefix \o k) \notin env.failing
     /\ store[prefix \o k].kind = "record"}
IdsOf(list) == {list[i].id : i \in 1..Len(list)}

\* C16: after a loadData run no exception has left loadData; the records
\* whose fetch or parse failed are skipped and the others are listed; and
\* when the index of a list could not be read (contract unavailable or
\* getData rejecting) or not be parsed, that list is empty.
C16_ReadFailuresAreNoData ==
  lastLoad.ran =>
    LET env == lastLoad.env
        unavailable == env.available # "ok" \/ env.contract # "ok"
        noIndex(key) ==
          unavailable \/ key \in env.failing \/ store[key].kind = "garbage"
    IN  /\ ~lastLoad.threw
        /\ lastLoad.sensorSet =>
             IdsOf(sensorData) = Loadable(env, "sensor_", readIndex(store["sensor_keys"]))
        /\ lastLoad.adviceSet =>
             IdsOf(farmingAdvice) = Loadable(env, "advice_", readIndex(store["advice_keys"]))
        /\ noIndex("sensor_keys") => sensorData = << >>
        /\ noIndex("advice_keys") => farmingAdvice = << >>

\* --------------------------------------------------------------------- C17
\* C17: every callback looks the request ID up and rejects an absent entry
\* before it verifies the proof, and verifies the proof before it decodes,
\* writes or emits: a callback with an unregistered request ID reverts
\* without FHE.checkSignatures having been invoked, and whenever the
\* verifier was invoked the lookup had returned a registered entity.
C17_LookupBeforeProof ==
  last.op \in Callbacks =>
    /\ NeverIssued(last.requestId) => (last.reverted /\ ~last.verifierCalled)
    /\ last.verifierCalled => last.entity # 0
    /\ last.events # << >> => (last.verifierCalled /\ last.proofOk)

\* --------------------------------------------------------------------- C18
RequestOps ==
  {"requestTwinUpdate", "submitEncryptedRecommendationRequest",
   "requestAggregateDecryption"}
Registered(tags) == {r \in RequestIds : tags[r] # ZeroTag}

\* C18: in every step the set of registered request IDs only grows, and the
\* entry of a request ID (requestToEntityId and requestToTag) changes only
\* in a successful request operation that obtained that very ID; no
\* callback, successful or rejected, and no other operation touches it.
C18_Step ==
  /\ Registered(requestToTag) \subseteq Registered(requestToTag')
  /\ \A r \in RequestIds :
       (requestToEntityId'[r] # requestToEntityId[r] \/ requestToTag'[r] # requestToTag[r]) =>
         /\ last'.op \in RequestOps /\ ~last'.reverted /\ last'.issued = r
         /\ requestToTag'[r] # ZeroTag
  /\ (last' # last /\ last'.op \in Callbacks) =>
       (requestToEntityId' = requestToEntityId /\ requestToTag' = requestToTag)
C18_NeverRemoved == [][C18_Step]_vars

\* request 0 is still registered for twin 2 after its callback succeeded and
\* after a later request was registered
C18_Witness ==
  /\ \E x \in succeeded : x.requestId = 0 /\ x.entity = 2
  /\ requestToEntityId[0] = 2 /\ requestToTag[0] = Keccak("twin_update")
  /\ 1 \in Registered(requestToTag)

\* --------------------------------------------------------------------- C19
\* the payload is one the callback `op` decodes
Decodes(op, cleartexts) ==
  LET decoded == decodeStringArray(cleartexts)
  IN  /\ decoded.ok
      /\ (op = "decryptTwinUpdate" /\ Len(decoded.parts) > 1) =>
           parseUint32(decoded.parts[2]).ok

\* C19: a step that invokes decryptTwinUpdate or decryptRecommendation with
\* a passing proof, a payload it decodes and a request ID for which the same
\* callback has already succeeded, succeeds again: it resolves to the same
\* entity, replaces the decrypted view of that entity by the one decoded
\* from the new payload and emits the decrypted event again, and the
\* correlator entry is still there afterwards.
C19_Step ==
  LET c == last'
      r == c.requestId
      before == {x \in succeeded : x.requestId = r /\ x.op = c.op}
      parts == decodeStringArray(c.cleartexts).parts
  IN  (/\ c.op \in WritingCallbacks /\ c.proofOk
       /\ before # {} /\ Decodes(c.op, c.cleartexts)) =>
        /\ ~c.reverted
        /\ \A x \in before : x.entity = c.entity
        /\ requestToEntityId'[r] = c.entity
        /\ IF c.op = "decryptTwinUpdate"
           THEN /\ decryptedTwins'[c.entity] =
                     makeDecryptedTwin(parts,
                       IF Len(parts) > 1 THEN parseUint32(parts[2]).value ELSE U32(0))
                /\ c.events = <<Event("TwinDecrypted", c.entity, 0, "")>>
           ELSE /\ decryptedRecommendations'[c.entity] = makeDecryptedRecommendation(parts)
                /\ c.events = <<Event("RecommendationDecrypted", c.entity, 0, "")>>
C19_NotSingleUse == [][C19_Step]_vars

\* decryptTwinUpdate succeeded for request 0 in block 1 and again in block
\* 2, and the view holds what the later payload carried
C19_Witness ==
  /\ last.op = "decryptTwinUpdate" /\ ~last.reverted /\ last.requestId = 0
  /\ \A t \in {1, 2} :
       [op |-> "decryptTwinUpdate", requestId |-> 0, entity |-> 1, at |-> t] \in succeeded
  /\ last.cleartexts = StringsPayload(<<StrHealthy, Str8a>>)
  /\ getDecryptedTwin(1) = <<StrHealthy, U32(8), TRUE>>

\* --------------------------------------------------------------------- C20
\* C20: in every reachable state the request IDs the oracle has handed out
\* are exactly the registered ones: each has requestToEntityId and
\* requestToTag set to the entity and the tag of the call that obtained it,
\* every other ID has neither, and a writing callback invoked with an ID
\* that was handed out has read the entity of the issuing call.
C20_IssueRegisters ==
  /\ \A r \in RequestIds :
       /\ r < counterRequest <=> ~NeverIssued(r)
       /\ ~NeverIssued(r) =>
            /\ requestToEntityId[r] = issuedFor[r].entity
            /\ requestToTag[r] = Keccak(issuedFor[r].kind)
       /\ NeverIssued(r) =>
            (requestToEntityId[r] = 0 /\ requestToTag[r] = ZeroTag)
  /\ (last.op \in WritingCallbacks /\ ~NeverIssued(last.requestId)) =>
       last.entity = issuedFor[last.requestId].entity
  /\ (last.op \in RequestOps /\ ~last.reverted) =>
       (last.issued = counterRequest - 1 /\ ~NeverIssued(last.issued))

\* a twin-update request and a recommendation request are both registered
C20_Witness ==
  /\ counterRequest = 2
  /\ issuedFor[0] = [kind |-> "twin_update", entity |-> 2]
  /\ issuedFor[1] = [kind |-> "recommendation", entity |-> 1]
  /\ requestToEntityId[0] = 2 /\ requestToTag[0] = Keccak("twin_update")
  /\ requestToEntityId[1] = 1 /\ requestToTag[1] = Keccak("recommendation")
  /\ last.op = "decryptTwinUpdate" /\ last.requestId = 0 /\ last.entity = 2

\* --------------------------------------------------------------------- C21
\* the requests whose callback op has succeeded and that resolve to entity e
DeliveredTo(op, e) ==
  {r \in RequestIds : delivered[op][r] # NotDelivered /\ requestToEntityId[r] = e}

\* what decryptTwinUpdate stores for the payload c (c decodes and parses)
TwinOf(c) ==
  LET parts == decodeStringArray(c).parts
  IN  makeDecryptedTwin(parts,
        IF Len(parts) > 1 THEN parseUint32(parts[2]).value ELSE U32(0))

\* an encrypted twin record, its timestamp aside
Untimed(t) ==
  [id |-> t.id, encryptedStateHash |-> t.encryptedStateHash,
   encryptedHealthScore |-> t.encryptedHealthScore]

\* C21: callbacks of requests that target different entities commute: in
\* every reachable state the decrypted views, the encrypted twin records
\* (timestamps aside), twinCount and the correlator are determined by the
\* payload that each request's callback delivered, and not by the order in
\* which the callbacks (and the transactions between them) ran.  An entity
\* that no delivered request targets is untouched; an entity that exactly
\* one delivered request targets holds what that request's payload decodes
\* to; twinCount counts the entities a twin callback was delivered to; the
\* correlator holds what the requests registered.
C21_CallbacksCommute ==
  /\ \A e \in EntityIds \ {0} :
       LET twins == DeliveredTo("decryptTwinUpdate", e)
           recs == DeliveredTo("decryptRecommendation", e)
       IN  /\ twins = {} =>
                /\ decryptedTwins[e] = ZeroDecryptedTwin
                /\ encryptedTwins[e] = ZeroEncryptedTwin
           /\ \A r \in twins :
                /\ twins = {r} =>
                     decryptedTwins[e] = TwinOf(delivered["decryptTwinUpdate"][r])
                /\ Untimed(encryptedTwins[e]) =
                     [id |-> e, encryptedStateHash |-> asEuint32(U32(0)),
                      encryptedHealthScore |-> asEuint32(U32(0))]
           /\ recs = {} => decryptedRecommendations[e] = ZeroDecryptedRecommendation
           /\ \A r \in recs :
                recs = {r} =>
                  decryptedRecommendations[e] =
                    makeDecryptedRecommendation(
                      decodeStringArray(delivered["decryptRecommendation"][r]).parts)
  /\ twinCount =
       Cardinality({e \in EntityIds : DeliveredTo("decryptTwinUpdate", e) # {}})
  /\ \A r \in RequestIds :
       /\ requestToEntityId[r] = issuedFor[r].entity
       /\ requestToTag[r] =
            IF NeverIssued(r) THEN ZeroTag ELSE Keccak(issuedFor[r].kind)

\* two requests for different twins are pending; the callback of the later
\* request ran first and the callback of the earlier request ran after it,
\* each with a payload of its own
C21_Witness ==
  /\ issuedFor[0] = [kind |-> "twin_update", entity |-> 1]
  /\ issuedFor[1] = [kind |-> "twin_update", entity |-> 2]
  /\ delivered["decryptTwinUpdate"][1] = PayloadRecommendation
  /\ last.op = "decryptTwinUpdate" /\ ~last.reverted
  /\ last.requestId = 0 /\ last.cleartexts = PayloadTwin
  /\ decryptedTwins[1] = TwinOf(PayloadTwin)
  /\ decryptedTwins[2] = TwinOf(PayloadRecommendation)
  /\ twinCount = 2

\* --------------------------------------------------------------------- C22
\* C22: registration is unconditional.  When the oracle returns a request
\* ID that is already registered, the request operation does not fail on
\* that account (it reverts only for an empty reading list or an unknown
\* metric) and overwrites both the entity ID and the tag of that ID; from
\* then on a callback for that ID resolves to the entity of the latest
\* registration, and writes nothing under the entity of a registration it
\* replaced.
C22_Step ==
  LET c == last'
  IN  /\ \A r \in RequestIds :
           ~NeverIssued(r)' =>
             /\ requestToEntityId'[r] = issuedFor'[r].entity
             /\ requestToTag'[r] = Keccak(issuedFor'[r].kind)
      /\ (c.op \in RequestOps /\ c.reverted) =>
           c.reason \in {"No readings provided", "Metric not found"}
      /\ (c.op \in WritingCallbacks /\ blockTimestamp' = blockTimestamp
            /\ c.requestId \in RequestIds) =>
           /\ c.entity = issuedFor[c.requestId].entity
           /\ \A x \in replaced :
                (x.requestId = c.requestId /\ x.entity # c.entity) =>
                  /\ decryptedTwins'[x.entity] = decryptedTwins[x.entity]
                  /\ encryptedTwins'[x.entity] = encryptedTwins[x.entity]
                  /\ decryptedRecommendations'[x.entity] =
                       decryptedRecommendations[x.entity]

C22_LatestRegistrationWins == [][C22_Step]_vars

\* request ID 0 was registered for twin 2 and then again for recommendation
\* 1; a callback for ID 0 succeeded after that and wrote under entity 1
C22_Witness ==
  /\ [requestId |-> 0, kind |-> "twin_update", entity |-> 2] \in replaced
  /\ issuedFor[0] = [kind |-> "recommendation", entity |-> 1]
  /\ requestToEntityId[0] = 1
  /\ requestToTag[0] = Keccak("recommendation")
  /\ last.op = "decryptTwinUpdate" /\ ~last.reverted
  /\ last.requestId = 0 /\ last.entity = 1
  /\ decryptedTwins[1].revealed
  /\ ~decryptedTwins[2].revealed

\* --------------------------------------------------------------------- C23
\* C23: the owner-of-twin check is a no-op.  Whoever calls
\* requestTwinUpdate(twinId, readingIds), the call is rejected exactly when
\* readingIds is empty; an accepted call registers twinId and the
\* twin-update tag under the request ID the oracle returned, changes no
\* other correlator entry and emits TwinUpdateRequested(twinId, reqId); a
\* rejected call changes nothing.  None of this mentions the caller.  (No
\* other function has a modifier or reads msg.sender, so no other action
\* of the model takes a caller.)
C23_Step ==
  LET c == last'
  IN  (c.op = "requestTwinUpdate" /\ blockTimestamp' = blockTimestamp) =>
        /\ c.reverted <=> (c.readingIds = << >>)
        /\ c.reverted =>
             /\ c.events = << >> /\ c.issued = NoRequest
             /\ UNCHANGED <<storage, counterRequest>>
        /\ ~c.reverted =>
             /\ c.issued = counterRequest
             /\ requestToEntityId' =
                  [requestToEntityId EXCEPT ![c.issued] = c.twinId]
             /\ requestToTag' =
                  [requestToTag EXCEPT ![c.issued] = Keccak("twin_update")]
             /\ c.events = <<Event("TwinUpdateRequested", c.twinId, c.issued, "")>>

C23_CallerIgnored == [][C23_Step]_vars

\* a twin that an earlier request and its callback created; bob's request
\* for the same twin is accepted
C23_Witness ==
  /\ last.op = "requestTwinUpdate" /\ last.sender = "bob" /\ ~last.reverted
  /\ last.twinId = 2 /\ last.issued = 1
  /\ issuedFor[0] = [kind |-> "twin_update", entity |-> 2]
  /\ encryptedTwins[2].id = 2
  /\ requestToEntityId[1] = 2

\* --------------------------------------------------------------------- C26
\* C26: the stored tag is never consulted, so a handler is not bound to
\* the request type.  decryptRecommendation called with a passing proof, a
\* payload that decodes and a request ID that requestTwinUpdate(twinId, ..)
\* registered (twinId # 0) is accepted and writes
\* decryptedRecommendations[twinId] with revealed = true, although no
\* recommendation twinId was requested by that call (the encrypted
\* recommendations and recommendationCount stay as they are).
\* Symmetrically decryptTwinUpdate called with a request ID that
\* submitEncryptedRecommendationRequest registered writes
\* decryptedTwins[recId] and, when no twin record recId exists yet,
\* creates encryptedTwins[recId] and increments twinCount.
C26_Step ==
  LET c == last'
      r == c.requestId
      e == issuedFor[r].entity
      ran == /\ blockTimestamp' = blockTimestamp
             /\ r \in RequestIds /\ c.proofOk /\ e # 0
             /\ Decodes(c.op, c.cleartexts)
  IN  /\ (c.op = "decryptRecommendation" /\ ran
            /\ issuedFor[r].kind = "twin_update") =>
           /\ ~c.reverted /\ c.entity = e
           /\ decryptedRecommendations'[e].revealed
           /\ decryptedRecommendations'[e] =
                makeDecryptedRecommendation(decodeStringArray(c.cleartexts).parts)
           /\ UNCHANGED <<encryptedRecommendations, recommendationCount>>
      /\ (c.op = "decryptTwinUpdate" /\ ran
            /\ issuedFor[r].kind = "recommendation") =>
           /\ ~c.reverted /\ c.entity = e
           /\ decryptedTwins'[e].revealed
           /\ decryptedTwins'[e] = TwinOf(c.cleartexts)
           /\ encryptedTwins'[e].id = e
           /\ twinCount' = twinCount + (IF encryptedTwins[e].id = 0 THEN 1 ELSE 0)

C26_HandlersNotBound == [][C26_Step]_vars

\* request 0 is a recommendation request (recommendation 1) and request 1 a
\* twin-update request (twin 2); the twin callback ran on request 0 and
\* created twin 1, the recommendation callback ran on request 1 and
\* revealed a recommendation 2 that nobody submitted
C26_Witness ==
  /\ issuedFor[0] = [kind |-> "recommendation", entity |-> 1]
  /\ issuedFor[1] = [kind |-> "twin_update", entity |-> 2]
  /\ delivered["decryptTwinUpdate"][0] # NotDelivered
  /\ decryptedTwins[1].revealed /\ encryptedTwins[1].id = 1 /\ twinCount = 1
  /\ last.op = "decryptRecommendation" /\ ~last.reverted /\ last.requestId = 1
  /\ decryptedRecommendations[2].revealed
  /\ encryptedRecommendations[2].id = 0
  /\ recommendationCount = 1

\* --------------------------------------------------------------------- C27
\* C27: results for the same entity are not sequenced.  A decryptTwinUpdate
\* with a passing proof, a payload it decodes and the request ID of a
\* twin-update request (twinId # 0) is accepted whether or not a later
\* request for the same twin exists and whether or not that later
\* request's callback has already succeeded; the decrypted twin then holds
\* the payload of this callback.  So with two requests pending for one
\* twin the decrypted twin holds the payload of whichever callback ran
\* last, and the callback of the earlier request arriving second
\* overwrites the result of the later request.
C27_LastCallbackWins ==
  LET c == last
      r == c.requestId
  IN  (c.op = "decryptTwinUpdate" /\ r \in RequestIds) =>
        /\ (c.proofOk /\ issuedFor[r].kind = "twin_update"
              /\ issuedFor[r].entity # 0 /\ Decodes(c.op, c.cleartexts)) =>
             ~c.reverted
        /\ ~c.reverted =>
             /\ decryptedTwins[c.entity] = TwinOf(c.cleartexts)
             /\ decryptedTwins[c.entity].revealed

\* requests 0 and 1 are both for twin 1; the callback of request 1 has
\* succeeded with one payload, and the callback of request 0, run after it
\* with another payload, has replaced what request 1 delivered
C27_Witness ==
  /\ issuedFor[0] = [kind |-> "twin_update", entity |-> 1]
  /\ issuedFor[1] = [kind |-> "twin_update", entity |-> 1]
  /\ delivered["decryptTwinUpdate"][1] = PayloadRecommendation
  /\ last.op = "decryptTwinUpdate" /\ ~last.reverted
  /\ last.requestId = 0 /\ last.cleartexts = PayloadTwin
  /\ decryptedTwins[1] = TwinOf(PayloadTwin)
  /\ decryptedTwins[1] # TwinOf(PayloadRecommendation)

\* --------------------------------------------------------------------- C28
\* C28: twin ID 0 collides with the "absent" value of the correlator.
\* requestTwinUpdate(0, ids) with a non-empty ids is accepted: it obtains a
\* request ID, registers entity 0 with the twin-update tag under it and
\* emits TwinUpdateRequested(0, reqId).  Every decryptTwinUpdate for that
\* request ID is rejected with "Invalid request id", whatever the proof and
\* the payload.  In every reachable state decryptedTwins[0].revealed is
\* false and encryptedTwins[0].id is 0.
C28_TwinZeroNeverResolves ==
  LET c == last
  IN  /\ ~decryptedTwins[0].revealed
      /\ encryptedTwins[0].id = 0
      /\ (c.op = "requestTwinUpdate" /\ c.twinId = 0 /\ c.readingIds # << >>) =>
           /\ ~c.reverted
           /\ c.issued \in RequestIds
           /\ issuedFor[c.issued] = [kind |-> "twin_update", entity |-> 0]
           /\ requestToEntityId[c.issued] = 0
           /\ requestToTag[c.issued] = Keccak("twin_update")
           /\ c.events = <<Event("TwinUpdateRequested", 0, c.issued, "")>>
      /\ (c.op = "decryptTwinUpdate" /\ c.requestId \in RequestIds
            /\ issuedFor[c.requestId] = [kind |-> "twin_update", entity |-> 0]) =>
           /\ c.reverted
           /\ c.reason = "Invalid request id"

\* request 0 was issued for twin 0 and is tagged; its callback, with a
\* passing proof and a well-formed payload, has just been rejected
C28_Witness ==
  /\ issuedFor[0] = [kind |-> "twin_update", entity |-> 0]
  /\ requestToTag[0] = Keccak("twin_update")
  /\ requestToEntityId[0] = 0
  /\ last.op = "decryptTwinUpdate" /\ last.requestId = 0
  /\ last.proofOk /\ last.cleartexts = PayloadTwin
  /\ last.reverted /\ last.reason = "Invalid request id"

\* --------------------------------------------------------------------- C30
\* the key is listed in metricKeys
Listed(key) == \E i \in 1..Len(metricKeys) : metricKeys[i] = key

\* C30: in every reachable state a key is in metricKeys if and only if its
\* accumulator is initialized; requestAggregateDecryption(key) is accepted
\* exactly for the keys in metricKeys; and the accumulator of a key is
\* initialized (to an encrypted zero) before the first delta is added into
\* it, so after the first add it is initialized and encrypts that delta.
C30_ListedIffInitialized ==
  LET c == last
  IN  /\ \A k \in MetricKeyNames :
           Listed(k) <=> isInitialized(encryptedMetricAggregates[k])
      /\ c.op = "requestAggregateDecryption" => (~c.reverted <=> Listed(c.key))
      /\ (c.op = "addEncryptedAggregate"
            /\ BagCardinality(addedDeltas[c.key]) = 1) =>
           /\ Listed(c.key)
           /\ encryptedMetricAggregates[c.key] = FHEadd(asEuint32(U32(0)), c.delta)

\* avg_light has been added to (with an uninitialized delta) and its
\* decryption was requested and accepted; total_water has not, and a
\* request for it has just been rejected
C30_Witness ==
  /\ metricKeys = <<"avg_light">>
  /\ addedDeltas["avg_light"] = SetToBag({Uninit})
  /\ isInitialized(encryptedMetricAggregates["avg_light"])
  /\ ~isInitialized(encryptedMetricAggregates["total_water"])
  /\ issuedFor[0] = [kind |-> "aggregate", entity |-> Keccak("avg_light")]
  /\ last.op = "requestAggregateDecryption" /\ last.key = "total_water"
  /\ last.reverted /\ last.reason = "Metric not found"

\* --------------------------------------------------------------------- C25
\* the positions of an index array whose record is stored non-empty and
\* parseable: the guarded block of lines 141-152 / 182-191 completes on it
\* (the bytes are JSON text, and not the JSON null, on which the property
\* reads of that block throw)
ParseablePositions(prefix, keys) ==
  {i \in 1..Len(keys) :
     /\ byteLength(store[prefix \o keys[i]]) > 0
     /\ store[prefix \o keys[i]].kind = "record"}

\* list has exactly one entry per position of `at`, with the key as id and
\* the timestamp of the record, and is ordered newest first
ListsExactly(list, prefix, keys, at) ==
  /\ Len(list) = Cardinality(at)
  /\ \A i \in at :
       \E j \in 1..Len(list) :
         /\ list[j].id = keys[i]
         /\ list[j].timestamp = store[prefix \o keys[i]].timestamp
  /\ \A j \in 1..Len(list) : \E i \in at : list[j].id = keys[i]
  /\ \A j, k \in 1..Len(list) : j < k => list[j].timestamp >= list[k].timestamp

\* C25: after a loadData run in which every read succeeded (the contract
\* was available and no getData rejected), the sensor list that the run
\* set holds exactly one entry per key of the parsed "sensor_keys" array
\* whose record "sensor_<key>" is non-empty and parseable, entry id = the
\* key, ordered by timestamp non-increasing; the same holds for the advice
\* list with "advice_keys" and "advice_<key>".
C25_ListedNewestFirst ==
  (/\ lastLoad.ran
   /\ lastLoad.env.available = "ok" /\ lastLoad.env.contract = "ok"
   /\ lastLoad.env.failing = {}) =>
    LET sensorKeys == readIndex(store["sensor_keys"]).keys
        adviceKeys == readIndex(store["advice_keys"]).keys
    IN  /\ lastLoad.sensorSet =>
             ListsExactly(sensorData, "sensor_", sensorKeys,
                          ParseablePositions("sensor_", sensorKeys))
        /\ lastLoad.adviceSet =>
             ListsExactly(farmingAdvice, "advice_", adviceKeys,
                          ParseablePositions("advice_", adviceKeys))

\* the index lists a (timestamp 1) before b (timestamp 2); the run listed
\* b before a, and the one advice record
C25_Witness ==
  /\ lastLoad.ran /\ lastLoad.sensorSet /\ lastLoad.adviceSet
  /\ lastLoad.env = Env("ok", "ok", {})
  /\ store["sensor_keys"] = JsonKeys(<<"a", "b">>)
  /\ store["sensor_a"] = JsonRecord(1)
  /\ store["sensor_b"] = JsonRecord(2)
  /\ sensorData = <<[id |-> "b", timestamp |-> 2], [id |-> "a", timestamp |-> 1]>>
  /\ farmingAdvice = <<[id |-> "a", timestamp |-> 1]>>

\* --------------------------------------------------------------------- C24
\* the keys of a stored index array (none when the value is no array)
KeysIn(bytes) ==
  IF bytes.kind = "keys" THEN {bytes.keys[i] : i \in 1..Len(bytes.keys)} ELSE {}
ListOf(kind) == IF kind = "sensor" THEN sensorData ELSE farmingAdvice
SubmitKinds == {"sensor", "advice"}

\* the submit of the new ID at position i wrote its record and has not
\* written the index: the record is stored, the ID is in no index and in
\* no list
OrphanUnlisted(i) ==
  LET id == NewIds[i]
      kind == progress[i].kind
  IN  progress[i].stage = "recordStored" =>
        /\ store[RecordKey(kind, id)].kind = "record"
        /\ \A k \in SubmitKinds : id \notin KeysIn(store[IndexKey(k)])
        /\ id \notin IdsOf(sensorData) /\ id \notin IdsOf(farmingAdvice)

\* a new ID that is in an index was written there by its submit, after the
\* record; and a submit that wrote the index has its record stored
IndexedHasRecord(i) ==
  LET id == NewIds[i]
  IN  /\ \A k \in SubmitKinds :
           id \in KeysIn(store[IndexKey(k)]) =>
             /\ progress[i] = [kind |-> k, stage |-> "indexed"]
             /\ store[RecordKey(k, id)].kind = "record"
      /\ progress[i].stage = "indexed" =>
           store[RecordKey(progress[i].kind, id)].kind = "record"

\* C24: the record write and the index append of a submit are two store
\* writes, record first.  While a submit (submitSensorData or
\* submitFarmingAdvice) has written its record and not its index, the
\* record is stored, its ID is absent from the index and no list shows it;
\* when that submit has failed or stopped there, this stays so whatever
\* runs later, loadData included.  Conversely an ID that a submit wrote to
\* the index has its record stored.
C24_Step ==
  \A i \in 1..Len(NewIds) :
    /\ OrphanUnlisted(i)'
    /\ IndexedHasRecord(i)'
    /\ (/\ progress[i].stage = "recordStored"
        /\ \A c \in Clients :
             ~(submits[c].id = NewIds[i] /\ submits[c].pc \in {"index", "write"})) =>
         progress'[i] = progress[i]

C24_RecordBeforeIndex == [][C24_Step]_vars

\* the first submit of this browser wrote record b and failed before the
\* index write; its second submit stored and indexed c and reloaded: the
\* list shows c and a, record b is stored and listed nowhere
C24_Witness ==
  /\ progress[1] = [kind |-> "sensor", stage |-> "recordStored"]
  /\ progress[2] = [kind |-> "sensor", stage |-> "indexed"]
  /\ submits["peer"] = NoRun
  /\ submits["app"].pc = "idle" /\ submits["app"].id = "c"
  /\ store["sensor_b"].kind = "record"
  /\ store["sensor_keys"] = JsonKeys(<<"a", "c">>)
  /\ lastLoad.sensorSet
  /\ sensorData = <<[id |-> "c", timestamp |-> 3], [id |-> "a", timestamp |-> 1]>>

\* --------------------------------------------------------------------- C29
\* the run of browser c has stored its record and its index
Indexed(c) ==
  /\ submits[c].id # ""
  /\ progress[PositionOf(submits[c].id)].stage = "indexed"

\* x and y are the two browsers, each with a finished index write of the
\* same kind
BothIndexed(x, y) ==
  /\ x # y /\ Indexed(x) /\ Indexed(y)
  /\ submits[x].kind = submits[y].kind

\* a step in which a loadData run of this browser finishes
LoadFinishes ==
  \/ loadPc = "running" /\ loadPc' = "idle"
  \/ submits["app"].pc = "load" /\ submits'["app"].pc = "idle"

\* C29: the read-modify-write of the index is not atomic across browsers.
\* When two browsers have both run a submit of one kind up to its index
\* write, both have reported success.  If each read the index before the
\* other wrote it (neither array holds the other's ID), the stored index
\* is the array of one of them: it holds exactly one of the two new IDs,
\* both records are stored, and a loadData that sets the list from then on
\* lists only IDs of the stored index, so never the other ID.  If one of
\* them read the index after the other's write, as it does when the runs
\* do not overlap, the stored index is its array and ends with the two IDs
\* in the order of the writes.
C29_Step ==
  \A x, y \in Clients :
    BothIndexed(x, y)' =>
      LET rx == submits'[x]
          ry == submits'[y]
          index == store'[IndexKey(rx.kind)]
          sawX == \E i \in 1..Len(ry.keys) : ry.keys[i] = rx.id
          sawY == \E i \in 1..Len(rx.keys) : rx.keys[i] = ry.id
      IN  /\ rx.status # "error" /\ ry.status # "error"
          /\ store'[RecordKey(rx.kind, rx.id)].kind = "record"
          /\ store'[RecordKey(ry.kind, ry.id)].kind = "record"
          /\ (~sawX /\ ~sawY) =>
               /\ index \in {JsonKeys(rx.keys), JsonKeys(ry.keys)}
               /\ (rx.id \in KeysIn(index)) # (ry.id \in KeysIn(index))
               /\ (/\ LoadFinishes
                   /\ IF rx.kind = "sensor" THEN lastLoad'.sensorSet
                      ELSE lastLoad'.adviceSet) =>
                    \A id \in {rx.id, ry.id} :
                      id \in IdsOf(IF rx.kind = "sensor" THEN sensorData'
                                    ELSE farmingAdvice') => id \in KeysIn(index)
          /\ sawX =>
               /\ index = JsonKeys(ry.keys)
               /\ ry.keys = pushKey(rx.keys, ry.id)
               /\ Len(ry.keys) >= 2
               /\ ry.keys[Len(ry.keys) - 1] = rx.id
               /\ ry.keys[Len(ry.keys)] = ry.id

C29_IndexUpdateNotAtomic == [][C29_Step]_vars

\* both browsers read the sensor index <<a>> before either wrote it; the
\* second browser wrote <<a, c>> first and this browser wrote <<a, b>> over
\* it: both show success, record c is stored, the index and the list that
\* this browser's reload set hold b and a only
C29_Witness ==
  /\ submits["app"].id = "b" /\ submits["app"].kind = "sensor"
  /\ submits["peer"].id = "c" /\ submits["peer"].kind = "sensor"
  /\ submits["app"].keys = <<"a", "b">>
  /\ submits["peer"].keys = <<"a", "c">>
  /\ submits["app"].status = "success" /\ submits["peer"].status = "success"
  /\ submits["app"].pc = "idle"
  /\ store["sensor_keys"] = JsonKeys(<<"a", "b">>)
  /\ store["sensor_c"].kind = "record"
  /\ lastLoad.sensorSet
  /\ sensorData = <<[id |-> "b", timestamp |-> 2], [id |-> "a", timestamp |-> 1]>>

\* --------------------------------------------------------------------- C31
\* the reading slots and the recommendation slots are dense from 1: slot k
\* holds a record of id k for 1 <= k <= counter, slot 0 and the slots above
\* the counter hold the zero record
DenseReadings ==
  \A id \in ReadingIds :
    IF 1 <= id /\ id <= readingCount
    THEN readings[id].id = id
    ELSE readings[id] = ZeroReading
DenseRecommendations ==
  \A id \in EntityIds :
    IF 1 <= id /\ id <= recommendationCount
    THEN encryptedRecommendations[id].id = id
    ELSE encryptedRecommendations[id] = ZeroEncryptedRecommendation

\* a correlator entry that submitEncryptedRecommendationRequest wrote last
\* names a stored recommendation, never the absent sentinel 0
RecommendationEntriesInRange ==
  \A r \in RequestIds :
    issuedFor[r].kind = "recommendation" =>
      /\ requestToEntityId[r] = issuedFor[r].entity
      /\ 1 <= requestToEntityId[r] /\ requestToEntityId[r] <= recommendationCount

\* a step that is a call of `op` (every such call emits an event that names
\* its new ID, so the observation changes)
CallOf(op) == last' # last /\ last'.op = op

\* C31: reading and recommendation IDs are dense and start at 1.  Each
\* counter starts at 0, grows by exactly one in every
\* submitEncryptedReading (submitEncryptedRecommendationRequest) call, none
\* of which reverts, and changes in no other step, so it equals the number
\* of those calls and never decreases; the call stores its record in slot
\* counter + 1 with that id; the slots 1..counter hold records whose id is
\* their slot, slot 0 and the slots above the counter hold the zero record;
\* and every correlator entry written by
\* submitEncryptedRecommendationRequest holds an ID in
\* 1..recommendationCount.
C31_Step ==
  /\ IF CallOf("submitEncryptedReading")
     THEN /\ ~last'.reverted
          /\ readingCount' = readingCount + 1
          /\ readings'[readingCount'].id = readingCount'
          /\ last'.events =
               <<Event("ReadingSubmitted", readingCount', blockTimestamp, "")>>
     ELSE readingCount' = readingCount
  /\ IF CallOf("submitEncryptedRecommendationRequest")
     THEN /\ ~last'.reverted
          /\ recommendationCount' = recommendationCount + 1
          /\ encryptedRecommendations'[recommendationCount'].id = recommendationCount'
          /\ requestToEntityId'[last'.issued] = recommendationCount'
          /\ last'.events =
               <<Event("RecommendationRequested", recommendationCount', last'.issued, "")>>
     ELSE recommendationCount' = recommendationCount
  /\ DenseReadings' /\ DenseRecommendations' /\ RecommendationEntriesInRange'
C31_DenseIds ==
  /\ readingCount = 0 /\ recommendationCount = 0
  /\ DenseReadings /\ DenseRecommendations /\ RecommendationEntriesInRange
  /\ [][C31_Step]_vars

\* two recommendation requests were submitted: they are stored under 1 and
\* 2 and the two correlator entries name them
C31_Witness ==
  /\ recommendationCount = 2
  /\ encryptedRecommendations[1].id = 1 /\ encryptedRecommendations[2].id = 2
  /\ issuedFor[0].kind = "recommendation" /\ requestToEntityId[0] = 1
  /\ issuedFor[1].kind = "recommendation" /\ requestToEntityId[1] = 2
  /\ last.op = "submitEncryptedRecommendationRequest"

\* --------------------------------------------------------------------- C32
\* the entity IDs that have an encrypted twin record, and those for which a
\* decryptTwinUpdate has succeeded
TwinsWithRecord == {id \in EntityIds : encryptedTwins[id].id # 0}
TwinsDecrypted == {x.entity : x \in {y \in succeeded : y.op = "decryptTwinUpdate"}}

\* C32: in every reachable state twinCount is the number of IDs id with
\* encryptedTwins[id].id # 0, and these are the entity IDs for which
\* decryptTwinUpdate has succeeded at least once.  In every step twinCount
\* grows by one when a decryptTwinUpdate succeeds for an entity for the
\* first time and is unchanged otherwise: a repeated or replayed callback
\* for the same ID, a request operation and every other call leave it as
\* it was, and it never decreases.
C32_Step ==
  LET firsts == TwinsDecrypted' \ TwinsDecrypted
  IN  /\ twinCount' = twinCount + Cardinality(firsts)
      /\ Cardinality(firsts) <= 1
      /\ firsts # {} =>
           /\ last'.op = "decryptTwinUpdate" /\ ~last'.reverted
           /\ firsts = {last'.entity}
      /\ (last' # last /\ last'.op \in RequestOps) => twinCount' = twinCount
      /\ twinCount' = Cardinality(TwinsWithRecord') /\ TwinsWithRecord' = TwinsDecrypted'
C32_TwinCountIsDistinctTwins ==
  /\ twinCount = 0 /\ TwinsWithRecord = {} /\ TwinsDecrypted = {}
  /\ [][C32_Step]_vars

\* two requests for twin 1 were both answered, the second answer last: one
\* twin is counted
C32_Witness ==
  /\ twinCount = 1 /\ TwinsWithRecord = {1}
  /\ issuedFor[0] = [kind |-> "twin_update", entity |-> 1]
  /\ issuedFor[1] = [kind |-> "twin_update", entity |-> 1]
  /\ \E x, y \in succeeded :
       /\ x.op = "decryptTwinUpdate" /\ x.requestId = 0 /\ x.entity = 1
       /\ y.op = "decryptTwinUpdate" /\ y.requestId = 1 /\ y.entity = 1
  /\ last.op = "decryptTwinUpdate" /\ ~last.reverted /\ last.requestId = 1

\* --------------------------------------------------------------------- C33
\* the i-th listed reading ID contributes its six stored handles, in field
\* order, at positions 6(i-1)+1 .. 6i; an ID that names no stored reading
\* contributes six uninitialized handles
SixHandlesPerId(ids, ciphertexts) ==
  /\ Len(ciphertexts) = 6 * Len(ids)
  /\ \A i \in 1..Len(ids) :
       LET r == readings[ids[i]]
           base == 6 * (i - 1)
       IN  /\ ciphertexts[base + 1] = r.encryptedTimestamp
           /\ ciphertexts[base + 2] = r.encryptedTemperature
           /\ ciphertexts[base + 3] = r.encryptedHumidity
           /\ ciphertexts[base + 4] = r.encryptedCO2
           /\ ciphertexts[base + 5] = r.encryptedLight
           /\ ciphertexts[base + 6] = r.encryptedSoilMoisture
           /\ ~(1 <= ids[i] /\ ids[i] <= readingCount) =>
                \A j \in 1..6 : ciphertexts[base + j] = Uninit

\* C33: requestTwinUpdate does not validate reading IDs.  A call with a
\* non-empty readingIds array, whether its IDs are 0, above readingCount or
\* repeated, is accepted: it issues one decryption request over six handles
\* per listed ID (uninitialized handles for the IDs of no stored reading),
\* writes the one correlator entry (twinId, twin_update tag) of the request
\* ID it obtained, emits TwinUpdateRequested(twinId, requestId) and nothing
\* else, and changes no other storage.
C33_Step ==
  (last' # last /\ last'.op = "requestTwinUpdate" /\ last'.readingIds # << >>) =>
    LET reqId == last'.issued
    IN  /\ ~last'.reverted
        /\ reqId = counterRequest /\ counterRequest' = counterRequest + 1
        /\ SixHandlesPerId(last'.readingIds, last'.ciphertexts)
        /\ requestToEntityId' = [requestToEntityId EXCEPT ![reqId] = last'.twinId]
        /\ requestToTag' = [requestToTag EXCEPT ![reqId] = Keccak("twin_update")]
        /\ last'.events = <<Event("TwinUpdateRequested", last'.twinId, reqId, "")>>
        /\ UNCHANGED <<readingCount, twinCount, recommendationCount,
                       readings, encryptedTwins, decryptedTwins,
                       encryptedRecommendations, decryptedRecommendations,
                       encryptedMetricAggregates, metricKeys, blockTimestamp>>
C33_ReadingIdsNotValidated == [][C33_Step]_vars

\* with one stored reading, a request listing 3, 1, 1 and 0 was accepted:
\* 24 handles, those of reading 1 twice, the others uninitialized
C33_Witness ==
  /\ readingCount = 1
  /\ last.op = "requestTwinUpdate" /\ ~last.reverted
  /\ last.readingIds = <<3, 1, 1, 0>>
  /\ Len(last.ciphertexts) = 24
  /\ last.ciphertexts[1] = Uninit /\ last.ciphertexts[19] = Uninit
  /\ last.ciphertexts[7] = Enc(U32(10)) /\ last.ciphertexts[13] = Enc(U32(10))
  /\ requestToEntityId[0] = 2 /\ requestToTag[0] = Keccak("twin_update")

\* --------------------------------------------------------------------- C34
\* the keys a submit holds after keys.push(id), given the bytes it read
KeysAfterPush(keysBytes, id) ==
  (IF keysBytes.kind = "keys" THEN keysBytes.keys ELSE << >>) \o <<id>>

\* the getData of the index has resolved in this step of c's submit
IndexReadResolved(c) ==
  /\ submits[c].pc = "index" /\ submits'[c].pc # "index"
  /\ ~(submits'[c].status = "error" /\ submits'[c].message = Rejected)

\* the setData of the index has settled in this step of c's submit
IndexWriteSettled(c) ==
  submits[c].pc = "write" /\ submits'[c].pc # "write"

\* C34: a corrupt index is silently replaced on submit.  When the
\* getData of 'sensor_keys' ('advice_keys') resolves with bytes that are
\* non-empty and do not parse as JSON, submitSensorData
\* (submitFarmingAdvice) does not fail: it goes on to write the index with
\* the one-element array of the new ID, and when that write resolves the
\* index is that array and the status is success.  When the bytes parse to
\* an array, the array written is the existing keys in their order followed
\* by the new ID.  (Bytes that parse to a value that is no array make
\* keys.push throw: the submit reports an error and writes no index.)
C34_Step ==
  \A c \in Clients :
    LET run == submits[c]
        bytes == store[IndexKey(run.kind)]
    IN  /\ IndexReadResolved(c) =>
             /\ submits'[c].keysBytes = bytes
             /\ bytes.kind = "garbage" =>
                  /\ submits'[c].pc = "write" /\ submits'[c].status # "error"
                  /\ submits'[c].keys = <<run.id>>
             /\ bytes.kind = "keys" =>
                  /\ submits'[c].pc = "write" /\ submits'[c].status # "error"
                  /\ submits'[c].keys = bytes.keys \o <<run.id>>
             /\ bytes.kind = "null" =>
                  /\ submits'[c].status = "error"
                  /\ submits'[c].message = PushTypeError
             /\ store' = store
        /\ IndexWriteSettled(c) =>
             /\ run.keys = KeysAfterPush(run.keysBytes, run.id)
             /\ run.keysBytes.kind # "null"
             /\ \/ /\ submits'[c].status = "success"
                   /\ store' = [store EXCEPT ![IndexKey(run.kind)] = JsonKeys(run.keys)]
                   /\ run.keysBytes.kind = "garbage" =>
                        store'[IndexKey(run.kind)] = JsonKeys(<<run.id>>)
                \/ /\ submits'[c].status = "error" /\ submits'[c].message = Rejected
                   /\ store' = store
C34_CorruptIndexReplaced == [][C34_Step]_vars

\* an advice submit found the index ["a"] and wrote ["a", "b"]; then a
\* sensor submit found a corrupt index, wrote ["c"] and reported success
C34_Witness ==
  /\ progress[1] = [kind |-> "advice", stage |-> "indexed"]
  /\ store["advice_keys"] = JsonKeys(<<"a", "b">>)
  /\ submits["app"].kind = "sensor" /\ submits["app"].id = "c"
  /\ submits["app"].keysBytes = BytesGarbage
  /\ submits["app"].status = "success"
  /\ store["sensor_keys"] = JsonKeys(<<"c">>)
  /\ store["sensor_c"].kind = "record"

\* --------------------------------------------------------------------- C35
\* both store writes of the submit of `id` have completed
BothWritten(id) == progress[PositionOf(id)].stage = "indexed"

\* a loadData run of the page finishes in this step: one the page started,
\* or the one its submit awaits
LoadDataReturns ==
  \/ loadPc = "running" /\ loadPc' = "idle"
  \/ submits["app"].pc = "load" /\ submits'["app"].pc # "load"

\* C35: the front-end busy flags always clear.  A submitSensorData /
\* submitFarmingAdvice run is started only with a provider, and sets
\* creating; when it ends (creating falls) on an error path (no signer, a
\* rejected or failed setData or getData, a throwing push) the status is
\* error, a status of success at that point means that both store writes
\* completed, and without both writes the status is error.  isRefreshing is
\* false after every loadData run has finished, the early returns for an
\* unavailable contract included.  A submit pressed with no provider
\* alerts, starts no run, writes nothing to the store and changes neither
\* creating nor isRefreshing.  And, every awaited promise settling, every
\* run that has set creating eventually clears it.
C35_Step ==
  LET run == submits["app"]
      after == submits'["app"]
  IN  /\ (~run.creating /\ after.creating) =>
           /\ provider["app"] /\ after.status = "pending" /\ after.pc = "signer"
           /\ store' = store
      /\ (run.creating /\ ~after.creating) =>
           /\ after.pc = "idle"
           /\ after.status = "success" => BothWritten(run.id)'
           /\ ~BothWritten(run.id)' => after.status = "error"
           /\ BothWritten(run.id)' =>
                /\ store'[RecordKey(run.kind, run.id)].kind = "record"
                /\ store'[IndexKey(run.kind)] = JsonKeys(run.keys)
                /\ run.keys[Len(run.keys)] = run.id
      /\ LoadDataReturns => (~isRefreshing' /\ lastLoad'.ran)
      /\ (after.alert # run.alert /\ after.alert # "") =>
           /\ ~provider["app"]
           /\ after = [run EXCEPT !.alert = "Please connect wallet first"]
           /\ store' = store /\ progress' = progress
           /\ isRefreshing' = isRefreshing
      /\ (~provider["app"] /\ run.pc = "idle") =>
           (store' = store /\ ~after.creating)
C35_BusyFlagsClear ==
  /\ [][C35_Step]_vars
  /\ (submits["app"].creating ~> ~submits["app"].creating)

\* the first submit succeeded and its loadData returned early on an
\* unavailable contract; the second failed when its index write was
\* rejected; both have cleared creating and isRefreshing; the wallet was
\* then disconnected and a further submit was refused
C35_Witness ==
  /\ progress[1].stage = "indexed" /\ progress[2].stage = "recordStored"
  /\ lastLoad.ran /\ lastLoad.env = Env("false", "ok", {})
  /\ submits["app"].status = "error" /\ submits["app"].message = Rejected
  /\ submits["app"].pc = "idle" /\ ~submits["app"].creating
  /\ ~isRefreshing
  /\ ~provider["app"]
  /\ submits["app"].alert = "Please connect wallet first"

====
